---- MODULE Spec2Model ----
(***************************************************************************)
(* A model of the realtime voice-agent bridge (RealtimeSession and the     *)
(* carrier media handler of index.ts).  The specifications share one set   *)
(* of variables:                                                           *)
(*   SpecPlay  playback tracker, greeting phase, barge-in debounce         *)
(*   LiveSpecGreeting  the greeting alone, with fair delivery of events    *)
(*   SpecVal   one finalize_reservation invocation over a wide argument    *)
(*             domain (validation, coercion, insert)                       *)
(*   SpecDedup concurrent finalize_reservation invocations of one call     *)
(*   SpecCall  carrier stop events, close(), saveCallLogToSupabase, the    *)
(*             log file's streams, messages that do not parse              *)
(*   SpecLife  call set-up and teardown from the start message on;         *)
(*             LiveSpecLife adds fair progress of handlers and events      *)
(*   SpecAudio media payloads in both directions                           *)
(***************************************************************************)
EXTENDS Integers, Sequences, FiniteSets, TLC

\* ------------------------------------------------------------------ bounds
MaxSentMs == 2000
MaxItems == 3
MaxBargeIns == 2
MaxStops == 2
MaxInv == 2
MaxFrames == 3
MaxBadMessages == 1
MaxErrors == 1
MaxLinkAttempts == 3

\* ------------------------------------------------------- program constants
BargeInMinRemainMs == 2000
MarkIntervalMs == 300
BytesPerSecond == 8000

\* Sizes (decoded bytes) of the audio deltas the model channel delivers: short
\* frames while the greeting is studied, long ones for the barge-in window.
GreetingDeltaBytes == {800, 2400}
PlayDeltaBytes == {2400, 8000}

VARIABLES
  \* --- RealtimeSession: socket and session
  wsState,                     \* readyState of the model socket
  wsAssigned,                  \* this.ws has been set (open handler ran)
  openHandler,                 \* position of connect()'s async open handler
  promptLoaded,                \* loadSystemPrompt() has resolved
  conversationPhase,
  greetingAudioEndMs,
  hasRequestedInitialResponse,
  sessionUpdateTimeout,        \* the 3 s ACK timer is armed
  \* --- RealtimeSession: PlaybackTracker
  currentAssistantItemId,      \* 0 models undefined
  sentMsTotal,
  playedMsTotal,
  lastMarkSentMs,
  markSeq,
  markMap,
  clearing,
  bargeInDebounceTimer,        \* "undefined" | "armed" | "expired" (handle kept)
  isBargeInPending,
  lastBargeInLog,              \* last barge_in_* event written by logEvent
  transcript,                  \* number of transcript entries
  \* --- outbound traffic
  toModel,                     \* messages written to the model socket
  twilioMarks,                 \* marks queued at the carrier, not yet echoed
  clearsSent,                  \* clear messages written to the carrier
  \* --- the model channel's side
  srvResp,                     \* "idle" | "requested" | "streaming"
  srvPendingAcks,              \* session.update messages not yet acknowledged
  \* --- history
  greetingDoneSeen,            \* the greeting's response.done has been handled
  timerStopped,                \* the current timer saw a speech_stopped after it was set
  \* --- Reservation Finalizer
  userId,                      \* tenant id present
  callerNumber,                \* caller number present
  reservationFields,
  reservationCreated,
  inv,                         \* per finalize invocation: args, position, result
  reservationRows,             \* the reservation_requests table
  notifications,               \* notifyReservation payloads handed off
  toolCallLogs,                \* tool_call events written
  \* --- index.ts: registry and shutdown
  twilioSocket,                \* readyState of the carrier media socket
  calls,                       \* the registry holds this call's context
  stopHandlers,                \* per stop message: position of its handler
  closeCount,                  \* RealtimeSession.close() invocations
  saves,                       \* per close(): position of saveCallLogToSupabase
  summaries,                   \* summary completions requested
  callLogs,                    \* rows of call_logs
  usageReports,                \* reportUsageToStripe invocations
  startHandler,                \* position of the carrier start handler
  \* --- logging.ts: the call's NDJSON file
  activeStream,                \* activeStreams caches a stream for the file
  streamsOpened,               \* write streams created for the file
  streamsEnded,                \* write streams ended
  streamClosePending,          \* ended streams whose 'close' event is still due
  lateWrites,                  \* a line was written after close() closed the log
  alerts,                      \* alert events emitted through logEvent
  \* --- audio in both directions
  enableBase64Passthrough,     \* config.enableBase64Passthrough
  twilioMediaIn,               \* media payloads received from the carrier
  mediaCount,                  \* RealtimeSession.mediaCount
  firstAudioDelta,             \* timings.firstAudioDelta is set
  lastAudioDelta,              \* payload of the last audio delta received
  lastMediaToTwilio,           \* payload of the last media message sent to the carrier
  badMessages,                 \* malformed or unknown messages received so far
  \* --- further observations
  realtimeErrors,              \* error codes logged as realtime_error
  deltaBytesTotal,             \* audio bytes forwarded since the tracker was reset
  otherCall,                   \* a second call served by the same process
  rowCallLogId,                \* call_log_id of the reservation rows that have one
  debounceItem,                \* the assistant item that was current when the debounce timer was armed
  \* --- LINE account linking (lineWebhook.ts)
  linkTokenUsed,               \* line_link_tokens.used_at of the token is set
  lineTargetId,                \* store_notification_settings.line_target_id of the tenant
  linkAttempts,                \* the handleLinkToken calls presenting the token's code
  \* --- history
  staleMarkAcked               \* an echo of a mark of an earlier utterance has been handled

sessionVars == <<wsState, wsAssigned, openHandler, promptLoaded, conversationPhase,
                 greetingAudioEndMs, hasRequestedInitialResponse, sessionUpdateTimeout>>
trackerVars == <<currentAssistantItemId, sentMsTotal, playedMsTotal, lastMarkSentMs,
                 markSeq, markMap, clearing>>
bargeVars == <<bargeInDebounceTimer, isBargeInPending, lastBargeInLog>>
outVars == <<toModel, twilioMarks, clearsSent>>
srvVars == <<srvResp, srvPendingAcks>>
histVars == <<greetingDoneSeen, timerStopped>>
finVars == <<userId, callerNumber, reservationFields, reservationCreated, inv, reservationRows,
             notifications, toolCallLogs>>
callVars == <<twilioSocket, calls, stopHandlers, closeCount, saves, summaries, callLogs, usageReports>>
audioVars == <<enableBase64Passthrough, twilioMediaIn, mediaCount, firstAudioDelta,
               lastAudioDelta, lastMediaToTwilio, badMessages>>
linkVars == <<linkTokenUsed, lineTargetId, linkAttempts>>
extVars == <<realtimeErrors, deltaBytesTotal, otherCall, rowCallLogId, debounceItem, linkVars,
            staleMarkAcked>>
logVars == <<activeStream, streamsOpened, streamsEnded, streamClosePending, lateWrites, alerts>>

vars == <<sessionVars, trackerVars, bargeVars, transcript, outVars, srvVars,
          histVars, finVars, callVars, startHandler, logVars, audioVars, extVars>>

\* ---------------------------------------------------------------- messages
NoResult == [ok |-> FALSE, error_type |-> "unset", error_code |-> "none",
             missing_fields |-> <<>>, reservation_id |-> 0, deduped |-> "none"]

\* Base64 text is modelled by the bytes it stands for and by whether it is the
\* canonical encoding of them. Node's decoder accepts both; its encoder only
\* produces the canonical text.
Base64Text(data, canonical) == [data |-> data, canonical |-> canonical]
Base64Decode(text) == text.data
Base64Encode(data) == Base64Text(data, TRUE)

\* Audio bytes are identified by where they belong: the item (0 for caller
\* audio) and the position in its stream, with their length.
AudioData(item, pos, bytes) == [item_id |-> item, pos |-> pos, bytes |-> bytes]
NoAudio == Base64Text(AudioData(0, 0, 0), TRUE)

Msg(type) == [type |-> type, phase |-> "none", item_id |-> 0, audio_end_ms |-> 0,
              call_id |-> 0, output |-> NoResult, audio |-> NoAudio]

\* sendJson drops the payload unless the socket is OPEN.
SendJson(queue, msgs) == IF wsAssigned /\ wsState = "open" THEN queue \o msgs ELSE queue

SessionUpdateMsg(phase) == [Msg("session.update") EXCEPT !.phase = phase]
TruncateMsg(item, endMs) ==
  [Msg("conversation.item.truncate") EXCEPT !.item_id = item, !.audio_end_ms = endMs]
FunctionCallOutputMsg(callId, result) ==
  [Msg("conversation.item.create") EXCEPT !.call_id = callId, !.output = result]
ResponseCreateMsg == Msg("response.create")
AudioAppendMsg(text) == [Msg("input_audio_buffer.append") EXCEPT !.audio = text]
GreetingResponseCreateMsg == [Msg("response.create") EXCEPT !.phase = "greeting"]

\* ------------------------------------------------------------------ logging
AlertEvents == {"session_update_timeout", "reservation_not_created"}

\* writeLog: getStream creates and caches a stream when none is cached, then
\* the line is written.
LogWritten ==
  /\ activeStream' = TRUE
  /\ streamsOpened' = IF activeStream THEN streamsOpened ELSE streamsOpened + 1
  /\ lateWrites' = (lateWrites \/ closeCount > 0)
  /\ UNCHANGED <<streamsEnded, streamClosePending>>

\* logEvent(partial)
LogEvent(name) ==
  /\ LogWritten
  /\ alerts' = IF name \in AlertEvents THEN alerts \cup {name} ELSE alerts

CountType(queue, type) == Cardinality({k \in 1..Len(queue) : queue[k].type = type})

\* ------------------------------------------------------ playback accounting
\* Math.round((bytes * 1000) / 8000)
DeltaMs(bytes) == (bytes * 1000 + BytesPerSecond \div 2) \div BytesPerSecond

MarkName(item, ms, seq) == [item |-> item, ms |-> ms, seq |-> seq]

\* ------------------------------------------------------- JavaScript values
\* A value carries its type tag t, its characters s (strings) and its number n
\* (numbers; 1/0 for true/false).  Strings are sequences of characters.
Undefined == [t |-> "undefined", s |-> <<>>, n |-> 0]
Null == [t |-> "null", s |-> <<>>, n |-> 0]
Bool(b) == [t |-> "boolean", s |-> <<>>, n |-> IF b THEN 1 ELSE 0]
Num(k) == [t |-> "number", s |-> <<>>, n |-> k]
Str(chars) == [t |-> "string", s |-> chars, n |-> 0]
EmptyArray == [t |-> "array", s |-> <<>>, n |-> 0]
PlainObject == [t |-> "object", s |-> <<>>, n |-> 0]

Digits == {"0", "1", "2", "3", "4", "5", "6", "7", "8", "9"}
DigitChars == <<"0", "1", "2", "3", "4", "5", "6", "7", "8", "9">>
DigitVal(c) == (CHOOSE k \in 1..10 : DigitChars[k] = c) - 1

RECURSIVE NatToChars(_)
NatToChars(k) ==
  IF k < 10 THEN <<DigitChars[k + 1]>>
  ELSE Append(NatToChars(k \div 10), DigitChars[(k % 10) + 1])

\* String(val)
StringOf(v) ==
  CASE v.t = "string" -> v.s
    [] v.t = "number" -> IF v.n < 0 THEN <<"-">> \o NatToChars(0 - v.n) ELSE NatToChars(v.n)
    [] v.t = "boolean" -> IF v.n = 1 THEN <<"t", "r", "u", "e">> ELSE <<"f", "a", "l", "s", "e">>
    [] v.t = "undefined" -> <<"u", "n", "d", "e", "f", "i", "n", "e", "d">>
    [] v.t = "null" -> <<"n", "u", "l", "l">>
    [] v.t = "array" -> <<>>
    [] OTHER -> <<"[", "o", "b", "j", "e", "c", "t", " ", "O", "b", "j", "e", "c", "t", "]">>

\* .replace(/[^\d]/g, '')
StripNonDigits(chars) == SelectSeq(chars, LAMBDA c : c \in Digits)

RECURSIVE DigitsValue(_)
DigitsValue(chars) ==
  IF chars = <<>> THEN 0
  ELSE 10 * DigitsValue(SubSeq(chars, 1, Len(chars) - 1)) + DigitVal(chars[Len(chars)])

\* parseInt(digits, 10) of a string of digits only: NaN when it is empty.
NaN == 0 - 1
ParseInt(chars) == IF chars = <<>> THEN NaN ELSE DigitsValue(chars)

RECURSIVE TrimLeft(_)
TrimLeft(chars) ==
  IF chars # <<>> /\ chars[1] = " " THEN TrimLeft(Tail(chars)) ELSE chars
RECURSIVE TrimRight(_)
TrimRight(chars) ==
  IF chars # <<>> /\ chars[Len(chars)] = " "
    THEN TrimRight(SubSeq(chars, 1, Len(chars) - 1)) ELSE chars
\* .trim()
Trim(chars) == TrimRight(TrimLeft(chars))

\* /^\d{4}-\d{2}-\d{2}$/.test(s)
MatchesDate(chars) ==
  /\ Len(chars) = 10
  /\ \A k \in {1, 2, 3, 4, 6, 7, 9, 10} : chars[k] \in Digits
  /\ chars[5] = "-" /\ chars[8] = "-"

\* /^\d{2}:\d{2}$/.test(s)
MatchesTime(chars) ==
  /\ Len(chars) = 5
  /\ \A k \in {1, 2, 4, 5} : chars[k] \in Digits
  /\ chars[3] = ":"

\* Truthiness, as used by || and !
Truthy(v) ==
  CASE v.t \in {"undefined", "null"} -> FALSE
    [] v.t = "boolean" -> v.n = 1
    [] v.t = "number" -> v.n # 0
    [] v.t = "string" -> v.s # <<>>
    [] OTHER -> TRUE
\* a || b
JsOr(a, b) == IF Truthy(a) THEN a ELSE b

\* val === undefined || val === null || String(val).trim() === ''
IsEmptyVal(v) == v.t = "undefined" \/ v.t = "null" \/ Trim(StringOf(v)) = <<>>

\* =================================================================== SpecPlay
\* --------------------------------------------------------- connect(), open
\* ws.on('open'): connected = true, this.ws = ws, then await promptPromise.
WsOpen ==
  /\ wsState = "connecting"
  /\ wsState' = "open"
  /\ wsAssigned' = TRUE
  /\ openHandler' = "awaitPrompt"
  /\ UNCHANGED <<promptLoaded, conversationPhase, greetingAudioEndMs,
                 hasRequestedInitialResponse, sessionUpdateTimeout>>
  /\ UNCHANGED <<trackerVars, bargeVars, transcript, outVars, srvVars, histVars,
                 finVars, callVars>>
  /\ LogEvent("openai_ws_open")
  /\ UNCHANGED startHandler
  /\ UNCHANGED <<audioVars, extVars>>

\* loadSystemPrompt() resolves (the tenant configuration is fixed at Init).
PromptLoaded ==
  /\ wsState # "none"
  /\ ~promptLoaded
  /\ promptLoaded' = TRUE
  /\ UNCHANGED <<wsState, wsAssigned, openHandler, conversationPhase, greetingAudioEndMs,
                 hasRequestedInitialResponse, sessionUpdateTimeout>>
  /\ UNCHANGED <<trackerVars, bargeVars, transcript, outVars, srvVars, histVars,
                 finVars, callVars>>
  /\ UNCHANGED logVars
  /\ UNCHANGED startHandler
  /\ UNCHANGED <<audioVars, extVars>>

\* The open handler resumes after the prompt is loaded: sendSessionUpdate().
OpenResume ==
  /\ openHandler = "awaitPrompt"
  /\ promptLoaded
  /\ openHandler' = "done"
  /\ conversationPhase' = "greeting"
  /\ toModel' = SendJson(toModel, <<SessionUpdateMsg("greeting")>>)
  /\ srvPendingAcks' = srvPendingAcks + (Len(toModel') - Len(toModel))
  /\ sessionUpdateTimeout' = TRUE
  /\ UNCHANGED <<wsState, wsAssigned, promptLoaded, greetingAudioEndMs,
                 hasRequestedInitialResponse>>
  /\ UNCHANGED <<trackerVars, bargeVars, transcript, twilioMarks, clearsSent, srvResp,
                 histVars, finVars, callVars>>
  /\ LogEvent("session_update_sent")
  /\ startHandler' = "done"
  /\ UNCHANGED <<audioVars, extVars>>

\* The 3 s timer set by sendSessionUpdate expires: it only writes a log event.
SessionUpdateTimeoutFire ==
  /\ sessionUpdateTimeout
  /\ sessionUpdateTimeout' = FALSE
  /\ UNCHANGED <<wsState, wsAssigned, openHandler, promptLoaded, conversationPhase,
                 greetingAudioEndMs, hasRequestedInitialResponse>>
  /\ UNCHANGED <<trackerVars, bargeVars, transcript, outVars, srvVars, histVars,
                 finVars, callVars>>
  /\ LogEvent("session_update_timeout")
  /\ UNCHANGED startHandler
  /\ UNCHANGED <<audioVars, extVars>>

\* ------------------------------------------------- handleRealtimeEvent cases
\* session.updated: clear the ACK timer; on the first one request the greeting.
RecvSessionUpdatedMutantEveryAck ==
  /\ wsState = "open"
  /\ srvPendingAcks > 0
  /\ srvPendingAcks' = srvPendingAcks - 1
  /\ sessionUpdateTimeout' = FALSE
  /\ IF TRUE
       THEN /\ toModel' = SendJson(toModel, <<GreetingResponseCreateMsg>>)
            /\ hasRequestedInitialResponse' = TRUE
            /\ srvResp' = IF Len(toModel') > Len(toModel) THEN "requested" ELSE srvResp
       ELSE UNCHANGED <<toModel, hasRequestedInitialResponse, srvResp>>
  /\ UNCHANGED <<wsState, wsAssigned, openHandler, promptLoaded, conversationPhase,
                 greetingAudioEndMs>>
  /\ UNCHANGED <<trackerVars, bargeVars, transcript, twilioMarks, clearsSent, histVars,
                 finVars, callVars>>
  /\ LogEvent("session_updated_received")
  /\ UNCHANGED startHandler
  /\ UNCHANGED <<audioVars, extVars>>

RecvSessionUpdated ==
  /\ wsState = "open"
  /\ srvPendingAcks > 0
  /\ srvPendingAcks' = srvPendingAcks - 1
  /\ sessionUpdateTimeout' = FALSE
  /\ IF ~hasRequestedInitialResponse
       THEN /\ toModel' = SendJson(toModel, <<GreetingResponseCreateMsg>>)
            /\ hasRequestedInitialResponse' = TRUE
            /\ srvResp' = IF Len(toModel') > Len(toModel) THEN "requested" ELSE srvResp
       ELSE UNCHANGED <<toModel, hasRequestedInitialResponse, srvResp>>
  /\ UNCHANGED <<wsState, wsAssigned, openHandler, promptLoaded, conversationPhase,
                 greetingAudioEndMs>>
  /\ UNCHANGED <<trackerVars, bargeVars, transcript, twilioMarks, clearsSent, histVars,
                 finVars, callVars>>
  /\ LogEvent("session_updated_received")
  /\ UNCHANGED startHandler
  /\ UNCHANGED <<audioVars, extVars>>

\* response.output_item.added for an assistant message: reset the tracker.
RecvOutputItemAddedMutantKeepMarks ==
  /\ wsState = "open"
  /\ srvResp = "requested"
  /\ srvResp' = "streaming"
  /\ currentAssistantItemId' = currentAssistantItemId + 1
  /\ sentMsTotal' = 0
  /\ playedMsTotal' = 0
  /\ lastMarkSentMs' = 0
  /\ markSeq' = 0
  /\ markMap' = markMap
  /\ clearing' = FALSE
  /\ UNCHANGED <<sessionVars, bargeVars, transcript, outVars, srvPendingAcks, histVars,
                 finVars, callVars>>
  /\ UNCHANGED logVars
  /\ UNCHANGED startHandler
  /\ UNCHANGED <<audioVars, realtimeErrors, otherCall, rowCallLogId, debounceItem, linkVars, staleMarkAcked>>
  /\ deltaBytesTotal' = 0

RecvOutputItemAddedMutantResetPhase ==
  /\ wsState = "open"
  /\ srvResp = "requested"
  /\ srvResp' = "streaming"
  /\ currentAssistantItemId' = currentAssistantItemId + 1
  /\ sentMsTotal' = 0
  /\ playedMsTotal' = 0
  /\ lastMarkSentMs' = 0
  /\ markSeq' = 0
  /\ markMap' = <<>>
  /\ clearing' = FALSE
  /\ conversationPhase' = "greeting"
  /\ UNCHANGED <<wsState, wsAssigned, openHandler, promptLoaded, greetingAudioEndMs,
                 hasRequestedInitialResponse, sessionUpdateTimeout>>
  /\ UNCHANGED <<bargeVars, transcript, outVars, srvPendingAcks, histVars,
                 finVars, callVars>>
  /\ UNCHANGED logVars
  /\ UNCHANGED startHandler
  /\ UNCHANGED <<audioVars, realtimeErrors, otherCall, rowCallLogId, debounceItem, linkVars, staleMarkAcked>>
  /\ deltaBytesTotal' = 0

RecvOutputItemAdded ==
  /\ wsState = "open"
  /\ srvResp = "requested"
  /\ srvResp' = "streaming"
  /\ currentAssistantItemId' = currentAssistantItemId + 1
  /\ sentMsTotal' = 0
  /\ playedMsTotal' = 0
  /\ lastMarkSentMs' = 0
  /\ markSeq' = 0
  /\ markMap' = <<>>
  /\ clearing' = FALSE
  /\ UNCHANGED <<sessionVars, bargeVars, transcript, outVars, srvPendingAcks, histVars,
                 finVars, callVars>>
  /\ UNCHANGED logVars
  /\ UNCHANGED startHandler
  /\ UNCHANGED <<audioVars, realtimeErrors, otherCall, rowCallLogId, debounceItem, linkVars, staleMarkAcked>>
  /\ deltaBytesTotal' = 0

\* The audio carried by a delta event: the bytes of the item's stream that end
\* at offset endMs.
DeltaAudio(item, endMs, bytes) == Base64Text(AudioData(item, endMs, bytes), TRUE)

\* onAudioToTwilio: a media message with the payload as received, sent only
\* while the carrier socket is OPEN.
ForwardAudioToTwilio(base64Mulaw) ==
  IF twilioSocket = "open" THEN base64Mulaw ELSE lastMediaToTwilio

\* response.audio.delta: forward, account, emit a mark every 300 ms.
RecvAudioDelta(bytes) ==
  /\ wsState = "open"
  /\ srvResp = "streaming"
  /\ sentMsTotal + DeltaMs(bytes) <= MaxSentMs
  /\ sentMsTotal' = sentMsTotal + DeltaMs(bytes)
  /\ IF currentAssistantItemId # 0 /\ sentMsTotal' - lastMarkSentMs >= MarkIntervalMs
       THEN LET name == MarkName(currentAssistantItemId, sentMsTotal', markSeq + 1)
            IN /\ markSeq' = markSeq + 1
               /\ markMap' = [n \in DOMAIN markMap \cup {name} |->
                                IF n = name THEN sentMsTotal' ELSE markMap[n]]
               /\ twilioMarks' = IF twilioSocket = "open" THEN Append(twilioMarks, name)
                                  ELSE twilioMarks
               /\ lastMarkSentMs' = sentMsTotal'
       ELSE UNCHANGED <<markSeq, markMap, twilioMarks, lastMarkSentMs>>
  /\ lastAudioDelta' = DeltaAudio(currentAssistantItemId, sentMsTotal', bytes)
  /\ lastMediaToTwilio' = ForwardAudioToTwilio(lastAudioDelta')
  /\ firstAudioDelta' = TRUE
  /\ IF ~firstAudioDelta THEN LogEvent("audio_delta") ELSE UNCHANGED logVars
  /\ UNCHANGED <<currentAssistantItemId, playedMsTotal, clearing>>
  /\ UNCHANGED <<sessionVars, bargeVars, transcript, toModel, clearsSent, srvVars,
                 histVars, finVars, callVars>>
  /\ deltaBytesTotal' = deltaBytesTotal + bytes
  /\ UNCHANGED <<startHandler, enableBase64Passthrough, twilioMediaIn, mediaCount,
                 badMessages, realtimeErrors, otherCall, rowCallLogId, debounceItem, linkVars, staleMarkAcked>>

\* response.done carrying assistant text: transcript entry; during the greeting
\* record the greeting's audio length.
RecvResponseDone ==
  /\ wsState = "open"
  /\ srvResp = "streaming"
  /\ srvResp' = "idle"
  /\ transcript' = transcript + 1
  /\ IF conversationPhase = "greeting"
       THEN /\ greetingAudioEndMs' = sentMsTotal
            /\ greetingDoneSeen' = TRUE
       ELSE UNCHANGED <<greetingAudioEndMs, greetingDoneSeen>>
  /\ UNCHANGED <<wsState, wsAssigned, openHandler, promptLoaded, conversationPhase,
                 hasRequestedInitialResponse, sessionUpdateTimeout>>
  /\ UNCHANGED <<trackerVars, bargeVars, outVars, srvPendingAcks, timerStopped,
                 finVars, callVars>>
  /\ LogEvent("assistant_response")
  /\ UNCHANGED startHandler
  /\ UNCHANGED <<audioVars, extVars>>

\* In the normal phase the server starts a response: its VAD does after the
\* caller's turn (create_response enabled), and so does a response.create
\* that follows a tool result.
VadResponse ==
  /\ wsState = "open"
  /\ srvResp = "idle"
  /\ \E k \in 1..Len(toModel) :
       toModel[k].type = "session.update" /\ toModel[k].phase = "normal"
  /\ currentAssistantItemId < MaxItems
  /\ srvResp' = "requested"
  /\ UNCHANGED <<sessionVars, trackerVars, bargeVars, transcript, outVars,
                 srvPendingAcks, histVars, finVars, callVars>>
  /\ UNCHANGED logVars
  /\ UNCHANGED startHandler
  /\ UNCHANGED <<audioVars, extVars>>

\* ------------------------------------------------------------------ barge-in
\* speech_started: ignored in the greeting phase and when the audio is almost
\* finished; otherwise (re)start the debounce timer (clearTimeout + setTimeout).
SpeechStartedMutantNoGreetingGate ==
  IF sentMsTotal - playedMsTotal < BargeInMinRemainMs
    THEN /\ lastBargeInLog' = "ignored_audio_almost_finished"
         /\ UNCHANGED <<bargeInDebounceTimer, isBargeInPending>>
    ELSE /\ isBargeInPending' = TRUE
         /\ bargeInDebounceTimer' = "armed"
         /\ UNCHANGED lastBargeInLog

OnSpeechStarted ==
  IF conversationPhase = "greeting"
    THEN /\ lastBargeInLog' = "ignored_greeting_phase"
         /\ UNCHANGED <<bargeInDebounceTimer, isBargeInPending>>
    ELSE IF sentMsTotal - playedMsTotal < BargeInMinRemainMs
      THEN /\ lastBargeInLog' = "ignored_audio_almost_finished"
           /\ UNCHANGED <<bargeInDebounceTimer, isBargeInPending>>
      ELSE /\ isBargeInPending' = TRUE
           /\ bargeInDebounceTimer' = "armed"
           /\ UNCHANGED lastBargeInLog

RecvSpeechStarted ==
  /\ wsState = "open"
  /\ clearsSent < MaxBargeIns
  /\ OnSpeechStarted
  /\ timerStopped' = IF conversationPhase = "greeting"
                          \/ sentMsTotal - playedMsTotal < BargeInMinRemainMs
                       THEN timerStopped ELSE FALSE
  /\ UNCHANGED <<sessionVars, trackerVars, transcript, outVars, srvVars,
                 greetingDoneSeen, finVars, callVars>>
  /\ LogEvent("vad_event")
  /\ UNCHANGED startHandler
  /\ UNCHANGED <<audioVars, realtimeErrors, deltaBytesTotal, otherCall, rowCallLogId, linkVars, staleMarkAcked>>
  /\ debounceItem' = IF bargeInDebounceTimer' = "armed" /\ isBargeInPending'
                          /\ ~(conversationPhase = "greeting"
                               \/ sentMsTotal - playedMsTotal < BargeInMinRemainMs)
                       THEN currentAssistantItemId ELSE debounceItem

\* speech_stopped: cancel a pending debounce timer.
SpeechStoppedMutantNoCancel == UNCHANGED bargeVars

OnSpeechStopped ==
  IF isBargeInPending /\ bargeInDebounceTimer # "undefined"
    THEN /\ bargeInDebounceTimer' = "undefined"
         /\ isBargeInPending' = FALSE
         /\ lastBargeInLog' = "cancelled_speech_stopped_before_debounce"
    ELSE UNCHANGED bargeVars

RecvSpeechStopped ==
  /\ wsState = "open"
  /\ OnSpeechStopped
  /\ timerStopped' = (timerStopped \/ bargeInDebounceTimer = "armed")
  /\ UNCHANGED <<sessionVars, trackerVars, transcript, outVars, srvVars,
                 greetingDoneSeen, finVars, callVars>>
  /\ LogEvent("vad_event")
  /\ UNCHANGED startHandler
  /\ UNCHANGED <<audioVars, extVars>>

\* confirmBargeIn: clearing first, clear to the carrier, truncate to the model.
ConfirmBargeInMutantSentMs ==
  /\ clearing' = TRUE
  /\ clearsSent' = IF twilioSocket = "open" THEN clearsSent + 1 ELSE clearsSent
  /\ toModel' = IF currentAssistantItemId # 0
                  THEN SendJson(toModel, <<TruncateMsg(currentAssistantItemId, sentMsTotal)>>)
                  ELSE toModel

ConfirmBargeIn ==
  /\ clearing' = TRUE
  /\ clearsSent' = IF twilioSocket = "open" THEN clearsSent + 1 ELSE clearsSent
  /\ toModel' = IF currentAssistantItemId # 0
                  THEN SendJson(toModel, <<TruncateMsg(currentAssistantItemId, playedMsTotal)>>)
                  ELSE toModel

\* The debounce timer expires: the callback confirms when still pending.
DebounceFire ==
  /\ bargeInDebounceTimer = "armed"
  /\ bargeInDebounceTimer' = "expired"
  /\ isBargeInPending' = FALSE
  /\ IF isBargeInPending
       THEN lastBargeInLog' = "confirmed" /\ ConfirmBargeIn
       ELSE UNCHANGED <<lastBargeInLog, clearing, clearsSent, toModel>>
  /\ UNCHANGED <<currentAssistantItemId, sentMsTotal, playedMsTotal, lastMarkSentMs,
                 markSeq, markMap>>
  /\ UNCHANGED <<sessionVars, transcript, twilioMarks, srvVars, histVars, finVars, callVars>>
  /\ IF isBargeInPending THEN LogEvent("barge_in_confirmed") ELSE UNCHANGED logVars
  /\ UNCHANGED startHandler
  /\ UNCHANGED <<audioVars, extVars>>

\* ---------------------------------------------------------------- onTwilioMark
\* playedMsTotal >= greetingAudioEndMs * 0.9
GreetingPlayedMutantHalf(played) == played * 10 >= greetingAudioEndMs * 5

GreetingPlayed(played) == played * 10 >= greetingAudioEndMs * 9

OnTwilioMarkMutantIgnoreClearing(name) ==
  IF name \in DOMAIN markMap
    THEN /\ markMap' = [n \in DOMAIN markMap \ {name} |-> markMap[n]]
         /\ IF TRUE
              THEN LET played == IF markMap[name] > playedMsTotal
                                   THEN markMap[name] ELSE playedMsTotal
                   IN /\ playedMsTotal' = played
                      /\ IF conversationPhase = "greeting" /\ greetingAudioEndMs > 0
                            /\ GreetingPlayed(played)
                           THEN \* sendSessionUpdate('normal')
                                /\ conversationPhase' = "normal"
                                /\ toModel' = SendJson(toModel, <<SessionUpdateMsg("normal")>>)
                                /\ srvPendingAcks' =
                                     srvPendingAcks + (Len(toModel') - Len(toModel))
                                /\ sessionUpdateTimeout' = TRUE
                                /\ greetingAudioEndMs' = 0
                           ELSE UNCHANGED <<conversationPhase, toModel, srvPendingAcks,
                                            sessionUpdateTimeout, greetingAudioEndMs>>
              ELSE UNCHANGED <<playedMsTotal, conversationPhase, toModel, srvPendingAcks,
                               sessionUpdateTimeout, greetingAudioEndMs>>
    ELSE UNCHANGED <<markMap, playedMsTotal, conversationPhase, toModel, srvPendingAcks,
                     sessionUpdateTimeout, greetingAudioEndMs>>

OnTwilioMarkMutantTrustName(name) ==
  IF TRUE
    THEN /\ markMap' = [n \in DOMAIN markMap \ {name} |-> markMap[n]]
         /\ IF ~clearing
              THEN LET played == IF name.ms > playedMsTotal
                                   THEN name.ms ELSE playedMsTotal
                   IN /\ playedMsTotal' = played
                      /\ IF conversationPhase = "greeting" /\ greetingAudioEndMs > 0
                            /\ GreetingPlayed(played)
                           THEN \* sendSessionUpdate('normal')
                                /\ conversationPhase' = "normal"
                                /\ toModel' = SendJson(toModel, <<SessionUpdateMsg("normal")>>)
                                /\ srvPendingAcks' =
                                     srvPendingAcks + (Len(toModel') - Len(toModel))
                                /\ sessionUpdateTimeout' = TRUE
                                /\ greetingAudioEndMs' = 0
                           ELSE UNCHANGED <<conversationPhase, toModel, srvPendingAcks,
                                            sessionUpdateTimeout, greetingAudioEndMs>>
              ELSE UNCHANGED <<playedMsTotal, conversationPhase, toModel, srvPendingAcks,
                               sessionUpdateTimeout, greetingAudioEndMs>>
    ELSE UNCHANGED <<markMap, playedMsTotal, conversationPhase, toModel, srvPendingAcks,
                     sessionUpdateTimeout, greetingAudioEndMs>>

OnTwilioMark(name) ==
  IF name \in DOMAIN markMap
    THEN /\ markMap' = [n \in DOMAIN markMap \ {name} |-> markMap[n]]
         /\ IF ~clearing
              THEN LET played == IF markMap[name] > playedMsTotal
                                   THEN markMap[name] ELSE playedMsTotal
                   IN /\ playedMsTotal' = played
                      /\ IF conversationPhase = "greeting" /\ greetingAudioEndMs > 0
                            /\ GreetingPlayed(played)
                           THEN \* sendSessionUpdate('normal')
                                /\ conversationPhase' = "normal"
                                /\ toModel' = SendJson(toModel, <<SessionUpdateMsg("normal")>>)
                                /\ srvPendingAcks' =
                                     srvPendingAcks + (Len(toModel') - Len(toModel))
                                /\ sessionUpdateTimeout' = TRUE
                                /\ greetingAudioEndMs' = 0
                           ELSE UNCHANGED <<conversationPhase, toModel, srvPendingAcks,
                                            sessionUpdateTimeout, greetingAudioEndMs>>
              ELSE UNCHANGED <<playedMsTotal, conversationPhase, toModel, srvPendingAcks,
                               sessionUpdateTimeout, greetingAudioEndMs>>
    ELSE UNCHANGED <<markMap, playedMsTotal, conversationPhase, toModel, srvPendingAcks,
                     sessionUpdateTimeout, greetingAudioEndMs>>

\* The carrier echoes the oldest queued mark.
TwilioMarkAck ==
  /\ twilioMarks # <<>>
  /\ calls
  /\ OnTwilioMark(Head(twilioMarks))
  /\ twilioMarks' = Tail(twilioMarks)
  /\ UNCHANGED <<wsState, wsAssigned, openHandler, promptLoaded,
                 hasRequestedInitialResponse>>
  /\ UNCHANGED <<currentAssistantItemId, sentMsTotal, lastMarkSentMs, markSeq, clearing>>
  /\ UNCHANGED <<bargeVars, transcript, clearsSent, srvResp, histVars, finVars, callVars>>
  /\ IF conversationPhase' # conversationPhase
       THEN LogEvent("session_update_sent")
       ELSE UNCHANGED logVars
  /\ UNCHANGED startHandler
  /\ UNCHANGED <<audioVars, extVars>>

\* The same step, recording whether the echoed mark was emitted before the last
\* tracker reset.
TwilioMarkAckObserved ==
  /\ twilioMarks # <<>>
  /\ calls
  /\ OnTwilioMark(Head(twilioMarks))
  /\ twilioMarks' = Tail(twilioMarks)
  /\ UNCHANGED <<wsState, wsAssigned, openHandler, promptLoaded,
                 hasRequestedInitialResponse>>
  /\ UNCHANGED <<currentAssistantItemId, sentMsTotal, lastMarkSentMs, markSeq, clearing>>
  /\ UNCHANGED <<bargeVars, transcript, clearsSent, srvResp, histVars, finVars, callVars>>
  /\ IF conversationPhase' # conversationPhase
       THEN LogEvent("session_update_sent")
       ELSE UNCHANGED logVars
  /\ UNCHANGED startHandler
  /\ staleMarkAcked' = (staleMarkAcked \/ Head(twilioMarks).item # currentAssistantItemId)
  /\ UNCHANGED <<audioVars, realtimeErrors, deltaBytesTotal, otherCall, rowCallLogId,
                 debounceItem, linkVars>>

\* ================================================== finalize_reservation
\* ------------------------------------------------------ reservation fields
Field(key, label, type, required, enabled) ==
  [field_key |-> key, label |-> label, field_type |-> type,
   required |-> required, enabled |-> enabled]

\* The canonical keys, and one key a tenant defined itself.
FieldKeys == {"customer_name", "party_size", "requested_date", "requested_time",
              "second_date"}

\* Labels and hints are written in Latin transliteration.
DEFAULT_RESERVATION_FIELDS ==
  << Field("customer_name", "onamae", "text", TRUE, TRUE),
     Field("party_size", "ninzu", "number", TRUE, TRUE),
     Field("requested_date", "kibobi", "date", TRUE, TRUE),
     Field("requested_time", "kibojikan", "time", TRUE, TRUE) >>

\* Rows of reservation_form_fields a tenant may have configured.
TenantFieldsOptional ==
  << Field("customer_name", "onamae", "text", TRUE, TRUE),
     Field("requested_time", "kibojikan", "time", FALSE, TRUE),
     Field("requested_date", "kibobi", "date", FALSE, TRUE),
     Field("second_date", "daini_kibobi", "date", FALSE, TRUE),
     Field("party_size", "ninzu", "number", TRUE, FALSE) >>
TenantFieldsNoRequired ==
  << Field("customer_name", "onamae", "text", FALSE, TRUE),
     Field("requested_date", "kibobi", "date", FALSE, TRUE) >>

\* A tenant whose every row is disabled.
TenantFieldsAllDisabled ==
  << Field("customer_name", "onamae", "text", TRUE, FALSE),
     Field("party_size", "ninzu", "number", TRUE, FALSE) >>

\* this.reservationFields.filter(f => f.enabled !== false)
EnabledFields(fields) == SelectSeq(fields, LAMBDA f : f.enabled # FALSE)
\* enabledFields.filter(f => f.required)
RequiredFields(fields) == SelectSeq(EnabledFields(fields), LAMBDA f : f.required)

\* -------------------------------------------------- coercion and validation
\* number fields: parseInt(String(val).replace(/[^\d]/g, ''), 10), kept unless NaN
Coerce(f, val) ==
  IF f.field_type = "number"
    THEN LET num == ParseInt(StripNonDigits(StringOf(val)))
         IN IF num # NaN THEN Num(num) ELSE val
    ELSE val

Missing(f, hint) == [label |-> f.label, hint |-> hint]

\* The type check of one non-empty value: the entries pushed to missingFields.
TypeCheck(f, val) ==
  IF f.field_type = "number" /\ val.t # "number" THEN <<Missing(f, "(number)")>>
  ELSE IF f.field_type = "date" /\ ~MatchesDate(StringOf(val))
    THEN <<Missing(f, "(YYYY-MM-DD)")>>
  ELSE IF f.field_type = "time" /\ ~MatchesTime(StringOf(val))
    THEN <<Missing(f, "(HH:mm)")>>
  ELSE <<>>

FieldCheckMutantRequiredOnly(f, rawVal) ==
  LET val == Coerce(f, rawVal)
  IN IF f.required
       THEN IF IsEmptyVal(val) THEN <<Missing(f, "")>> ELSE TypeCheck(f, val)
       ELSE <<>>

\* One iteration of the validation loop: required check, then type check.
FieldCheck(f, rawVal) ==
  LET val == Coerce(f, rawVal)
  IN IF f.required /\ IsEmptyVal(val) THEN <<Missing(f, "")>>
     ELSE IF ~IsEmptyVal(val) THEN TypeCheck(f, val)
     ELSE <<>>

RECURSIVE MissingFields(_, _)
MissingFields(fields, rawAnswers) ==
  IF fields = <<>> THEN <<>>
  ELSE FieldCheck(Head(fields), rawAnswers[Head(fields).field_key])
         \o MissingFields(Tail(fields), rawAnswers)

\* cleanAnswers: the coerced non-empty values of the enabled fields.
CleanAnswers(fields, rawAnswers) ==
  [k \in FieldKeys |->
     IF \E j \in 1..Len(fields) :
          fields[j].field_key = k /\ ~IsEmptyVal(Coerce(fields[j], rawAnswers[k]))
       THEN LET j == CHOOSE j \in 1..Len(fields) :
                       fields[j].field_key = k
                       /\ ~IsEmptyVal(Coerce(fields[j], rawAnswers[k]))
            IN Coerce(fields[j], rawAnswers[k])
       ELSE Undefined]

ConfirmedMutantTruthy(confirmed) == Truthy(confirmed)
\* args.confirmed !== true, negated
ConfirmedIsTrue(confirmed) == confirmed.t = "boolean" /\ confirmed.n = 1

\* !rawAnswers || typeof rawAnswers !== 'object' || Array.isArray(rawAnswers), negated
AnswersIsObject(answers) == answers.t = "object"

\* ------------------------------------------------------------ tool results
SystemError(code) == [NoResult EXCEPT !.error_type = "system", !.error_code = code]
NotConfirmed == [NoResult EXCEPT !.error_type = "not_confirmed"]
MissingFieldsResult(missing) ==
  [NoResult EXCEPT !.error_type = "missing_fields", !.missing_fields = missing]
Created(id) == [NoResult EXCEPT !.ok = TRUE, !.error_type = "none", !.reservation_id = id,
                                !.deduped = "false"]
Deduped == [NoResult EXCEPT !.ok = TRUE, !.error_type = "none", !.deduped = "true"]

\* ------------------------------------------------ insertReservationFromTool
CallSid == "CA1"
Unknown == Str(<<"U", "n", "k", "n", "o", "w", "n">>)
EmptyString == Str(<<>>)
NoAnswers == [k \in FieldKeys |-> Undefined]
NoRow == [call_sid |-> "none", customer_phone |-> "none", customer_name |-> Undefined,
          party_size |-> Undefined, requested_date |-> Undefined,
          requested_time |-> Undefined, answers |-> NoAnswers, by |-> 0]

HasField(fields, key) == \E j \in 1..Len(fields) : fields[j].field_key = key

\* answers[f.field_key] || args[f.field_key] || '' for every configured field;
\* dbAnswers keeps the values other than ''.
DbAnswers(fields, answers, top) ==
  [k \in FieldKeys |->
     LET val == JsOr(JsOr(answers[k], top[k]), EmptyString)
     IN IF HasField(fields, k) /\ val # EmptyString THEN val ELSE Undefined]

\* getValue(key): answers[key] || args[key] || null
GetValue(answers, top, key) == JsOr(JsOr(answers[key], top[key]), Null)

\* The row handed to insert(); args is {...args, answers: cleanAnswers}.
InsertPayload(i, fields, answers, top) ==
  [call_sid |-> CallSid,
   customer_phone |-> IF callerNumber THEN "caller" ELSE "Unknown",
   customer_name |-> JsOr(GetValue(answers, top, "customer_name"), Unknown),
   party_size |-> GetValue(answers, top, "party_size"),
   requested_date |-> GetValue(answers, top, "requested_date"),
   requested_time |-> GetValue(answers, top, "requested_time"),
   answers |-> DbAnswers(fields, answers, top),
   by |-> i]

\* The payload of notifyReservation: canonical values read from the top level.
NotificationPayload(row, top) ==
  [customer_name |-> JsOr(top["customer_name"], Unknown),
   party_size |-> top["party_size"],
   requested_date |-> top["requested_date"],
   requested_time |-> top["requested_time"],
   answers |-> row.answers]

\* ------------------------------------------------ handleFinalizeReservation
\* The synchronous part, up to the first await or the return.
FinalizeBranch(a) ==
  IF a.json = "invalid" THEN [kind |-> "reply", result |-> SystemError("PARSE_ERROR")]
  ELSE IF RequiredFields(reservationFields) = <<>>
    THEN [kind |-> "reply", result |-> SystemError("NO_REQUIRED_FIELDS")]
  ELSE IF a.json = "null" THEN [kind |-> "thrown", result |-> NoResult]
  ELSE IF a.json # "object" \/ ~AnswersIsObject(a.answers)
    THEN [kind |-> "reply", result |-> SystemError("INVALID_ANSWERS_FORMAT")]
  ELSE IF ~ConfirmedIsTrue(a.confirmed) THEN [kind |-> "reply", result |-> NotConfirmed]
  ELSE IF MissingFields(EnabledFields(reservationFields), a.answers.m) # <<>>
    THEN [kind |-> "replyLogged",
          result |-> MissingFieldsResult(
                       MissingFields(EnabledFields(reservationFields), a.answers.m))]
  ELSE IF ~userId
    THEN [kind |-> "replyLogged", result |-> SystemError("USER_NOT_IDENTIFIED")]
  ELSE [kind |-> "insert", result |-> NoResult]

ToolCallLog(i, result) ==
  [call_id |-> inv[i].call_id, args |-> inv[i].args, result |-> result]

\* function_call_output, then response.create
Reply(i, result) ==
  SendJson(toModel, <<FunctionCallOutputMsg(inv[i].call_id, result), ResponseCreateMsg>>)

\* response.done carrying the function call: handleFinalizeReservation runs up
\* to its return or to the awaited insert.
FinalizeBegin(i) ==
  /\ inv[i].pc = "pending"
  /\ wsState = "open"
  /\ LET a == inv[i].args
         b == FinalizeBranch(a)
     IN CASE b.kind = "thrown" ->
               /\ inv' = [inv EXCEPT ![i].pc = "thrown"]
               /\ UNCHANGED <<toModel, toolCallLogs>>
          [] b.kind = "reply" ->
               /\ inv' = [inv EXCEPT ![i].pc = "done", ![i].result = b.result]
               /\ toModel' = Reply(i, b.result)
               /\ UNCHANGED toolCallLogs
          [] b.kind = "replyLogged" ->
               /\ inv' = [inv EXCEPT ![i].pc = "done", ![i].result = b.result]
               /\ toolCallLogs' = Append(toolCallLogs, ToolCallLog(i, b.result))
               /\ toModel' = Reply(i, b.result)
          [] OTHER ->
               /\ inv' = [inv EXCEPT
                            ![i].pc = "insert",
                            ![i].row = InsertPayload(i, reservationFields,
                                         CleanAnswers(EnabledFields(reservationFields),
                                                      a.answers.m), a.top)]
               /\ UNCHANGED <<toModel, toolCallLogs>>
  /\ UNCHANGED <<sessionVars, trackerVars, bargeVars, transcript, twilioMarks, clearsSent,
                 srvVars, histVars, callVars>>
  /\ UNCHANGED <<userId, callerNumber, reservationFields, reservationCreated,
                 reservationRows, notifications>>
  /\ IF \/ FinalizeBranch(inv[i].args).kind = "replyLogged"
        \/ FinalizeBranch(inv[i].args).result = SystemError("NO_REQUIRED_FIELDS")
       THEN LogEvent("tool_call") ELSE UNCHANGED logVars
  /\ UNCHANGED startHandler
  /\ UNCHANGED <<audioVars, extVars>>

\* The canonical columns are typed: party_size takes an integer, requested_date a
\* date, requested_time a time, each or NULL.
ColumnsAccept(row) ==
  /\ \/ row.party_size.t \in {"null", "number"}
     \/ row.party_size.t = "string" /\ row.party_size.s # <<>>
        /\ StripNonDigits(row.party_size.s) = row.party_size.s
  /\ row.requested_date.t = "null"
     \/ (row.requested_date.t = "string" /\ MatchesDate(row.requested_date.s))
  /\ row.requested_time.t = "null"
     \/ (row.requested_time.t = "string" /\ MatchesTime(row.requested_time.s))

\* The store executes the insert: a value a typed column cannot take fails it;
\* the unique index on call_sid rejects a second row (23505); any insert may
\* also fail for another reason.
DbInsert(i) ==
  /\ inv[i].pc = "insert"
  /\ \E fails \in BOOLEAN :
       IF fails \/ ~ColumnsAccept(inv[i].row)
         THEN /\ inv' = [inv EXCEPT ![i].pc = "resume", ![i].outcome = "error"]
              /\ UNCHANGED reservationRows
         ELSE IF \E r \in 1..Len(reservationRows) :
                   reservationRows[r].call_sid = inv[i].row.call_sid
           THEN /\ inv' = [inv EXCEPT ![i].pc = "resume", ![i].outcome = "23505"]
                /\ UNCHANGED reservationRows
           ELSE /\ inv' = [inv EXCEPT ![i].pc = "resume", ![i].outcome = "created"]
                /\ reservationRows' = Append(reservationRows, inv[i].row)
  /\ UNCHANGED <<sessionVars, trackerVars, bargeVars, transcript, outVars, srvVars,
                 histVars, callVars>>
  /\ UNCHANGED <<userId, callerNumber, reservationFields, reservationCreated,
                 notifications, toolCallLogs>>
  /\ UNCHANGED logVars
  /\ UNCHANGED startHandler
  /\ UNCHANGED <<audioVars, extVars>>

RowId(i) == CHOOSE r \in 1..Len(reservationRows) : reservationRows[r].by = i

FinalizeResumeMutantNoDedup(i) ==
  /\ inv[i].pc = "resume"
  /\ LET result == IF inv[i].outcome = "created" THEN Created(RowId(i))
                   ELSE SystemError("DB_INSERT_FAILED")
     IN /\ inv' = [inv EXCEPT ![i].pc = "done", ![i].result = result]
        /\ reservationCreated' = (reservationCreated \/ inv[i].outcome = "created")
        /\ notifications' =
             IF inv[i].outcome = "created"
               THEN Append(notifications, NotificationPayload(inv[i].row, inv[i].args.top))
               ELSE notifications
        /\ toolCallLogs' = Append(toolCallLogs, ToolCallLog(i, result))
        /\ toModel' = Reply(i, result)
  /\ UNCHANGED <<sessionVars, trackerVars, bargeVars, transcript, twilioMarks, clearsSent,
                 srvVars, histVars, callVars>>
  /\ UNCHANGED <<userId, callerNumber, reservationFields, reservationRows>>
  /\ LogEvent("tool_call")
  /\ UNCHANGED startHandler
  /\ UNCHANGED <<audioVars, extVars>>

\* insertReservationFromTool resumes with the store's answer; then the tool_call
\* log, the function_call_output and the response.create.
FinalizeResume(i) ==
  /\ inv[i].pc = "resume"
  /\ LET result == CASE inv[i].outcome = "created" -> Created(RowId(i))
                     [] inv[i].outcome = "23505" -> Deduped
                     [] OTHER -> SystemError("DB_INSERT_FAILED")
     IN /\ inv' = [inv EXCEPT ![i].pc = "done", ![i].result = result]
        /\ reservationCreated' = (reservationCreated \/ inv[i].outcome = "created")
        /\ notifications' =
             IF inv[i].outcome = "created"
               THEN Append(notifications, NotificationPayload(inv[i].row, inv[i].args.top))
               ELSE notifications
        /\ toolCallLogs' = Append(toolCallLogs, ToolCallLog(i, result))
        /\ toModel' = Reply(i, result)
  /\ UNCHANGED <<sessionVars, trackerVars, bargeVars, transcript, twilioMarks, clearsSent,
                 srvVars, histVars, callVars>>
  /\ UNCHANGED <<userId, callerNumber, reservationFields, reservationRows>>
  /\ LogEvent("tool_call")
  /\ UNCHANGED startHandler
  /\ UNCHANGED <<audioVars, extVars>>

\* ------------------------------------------------------------ initial states
\* The fields of a RealtimeSession as its constructor leaves them.
SessionConstructed ==
  /\ wsAssigned = FALSE
  /\ openHandler = "none"
  /\ promptLoaded = FALSE
  /\ conversationPhase = "greeting"
  /\ greetingAudioEndMs = 0
  /\ hasRequestedInitialResponse = FALSE
  /\ sessionUpdateTimeout = FALSE
  /\ currentAssistantItemId = 0
  /\ sentMsTotal = 0
  /\ playedMsTotal = 0
  /\ lastMarkSentMs = 0
  /\ markSeq = 0
  /\ markMap = <<>>
  /\ clearing = FALSE
  /\ bargeInDebounceTimer = "undefined"
  /\ isBargeInPending = FALSE
  /\ lastBargeInLog = "none"
  /\ transcript = 0
  /\ toModel = <<>>
  /\ twilioMarks = <<>>
  /\ clearsSent = 0
  /\ srvResp = "idle"
  /\ srvPendingAcks = 0
  /\ greetingDoneSeen = FALSE
  /\ timerStopped = FALSE
  /\ firstAudioDelta = FALSE
  /\ debounceItem = 0
  /\ staleMarkAcked = FALSE
  /\ realtimeErrors = {}
  /\ deltaBytesTotal = 0
  /\ lastAudioDelta = NoAudio
  /\ lastMediaToTwilio = NoAudio

\* connect() has created the WebSocket; the start handler awaits it.
SessionInit ==
  /\ startHandler = "connect"
  /\ wsState = "connecting"
  /\ SessionConstructed

\* calls.set(streamSid, context) on the open carrier socket.
CallRegistered ==
  /\ twilioSocket = "open"
  /\ calls = TRUE
  /\ stopHandlers = [h \in 1..MaxStops |-> "none"]
  /\ closeCount = 0
  /\ saves = <<>>
  /\ summaries = 0
  /\ callLogs = 0
  /\ usageReports = 0
  /\ twilioMediaIn = <<>>
  /\ mediaCount = 0
  /\ badMessages = 0
  /\ streamsEnded = 0
  /\ streamClosePending = 0
  /\ lateWrites = FALSE
  /\ alerts = {}

\* The start record has been written: the log stream is open and cached.
CallInit ==
  /\ CallRegistered
  /\ activeStream = TRUE
  /\ streamsOpened = 1

FinInit(invocations) ==
  /\ inv = invocations
  /\ rowCallLogId = <<>>
  /\ reservationCreated = FALSE
  /\ reservationRows = <<>>
  /\ notifications = <<>>
  /\ toolCallLogs = <<>>

FinIdle ==
  /\ userId = TRUE
  /\ callerNumber = TRUE
  /\ reservationFields = DEFAULT_RESERVATION_FIELDS
  /\ FinInit(<<>>)

\* config.ts: ENABLE_BASE64_PASSTHROUGH defaults to '1'.
DefaultConfig == enableBase64Passthrough = TRUE

\* No other call is in progress.
SingleCall == otherCall = [state |-> "none", logFile |-> "none"]

\* No link command has been received yet: the token is unused and unexpired and
\* the tenant's notification settings name no LINE account.
NoLinkAttempts ==
  /\ linkTokenUsed = FALSE
  /\ lineTargetId = "none"
  /\ linkAttempts = [a \in 1..MaxLinkAttempts |->
                       [pc |-> "idle", lineUserId |-> "none", linked |-> FALSE, reply |-> "none"]]

InitPlay == SessionInit /\ CallInit /\ FinIdle /\ DefaultConfig /\ SingleCall /\ NoLinkAttempts

NextPlay ==
  \/ WsOpen
  \/ PromptLoaded
  \/ OpenResume
  \/ SessionUpdateTimeoutFire
  \/ RecvSessionUpdated
  \/ RecvOutputItemAdded
  \/ \E bytes \in PlayDeltaBytes : RecvAudioDelta(bytes)
  \/ RecvResponseDone
  \/ VadResponse
  \/ RecvSpeechStarted
  \/ RecvSpeechStopped
  \/ DebounceFire
  \/ TwilioMarkAck

SpecPlay == InitPlay /\ [][NextPlay]_vars

\* Playback with deltas of one second of audio, observing the echoes of marks
\* that outlived their utterance.
MarkDeltaBytes == {8000}

NextMarks ==
  \/ WsOpen
  \/ PromptLoaded
  \/ OpenResume
  \/ SessionUpdateTimeoutFire
  \/ RecvSessionUpdated
  \/ RecvOutputItemAdded
  \/ \E bytes \in MarkDeltaBytes : RecvAudioDelta(bytes)
  \/ RecvResponseDone
  \/ VadResponse
  \/ RecvSpeechStarted
  \/ RecvSpeechStopped
  \/ DebounceFire
  \/ TwilioMarkAckObserved

SpecMarks == InitPlay /\ [][NextMarks]_vars

\* The greeting alone: connection, greeting response, playback acknowledgements.
NextGreeting ==
  \/ WsOpen
  \/ PromptLoaded
  \/ OpenResume
  \/ SessionUpdateTimeoutFire
  \/ RecvSessionUpdated
  \/ RecvOutputItemAdded
  \/ \E bytes \in GreetingDeltaBytes : RecvAudioDelta(bytes)
  \/ RecvResponseDone
  \/ TwilioMarkAck

\* Every event that is due is eventually delivered and handled: sockets deliver
\* their messages, timers expire, the carrier echoes every mark it was sent.
LiveSpecGreeting ==
  /\ InitPlay /\ [][NextGreeting]_vars
  /\ WF_vars(WsOpen) /\ WF_vars(PromptLoaded) /\ WF_vars(OpenResume)
  /\ WF_vars(SessionUpdateTimeoutFire) /\ WF_vars(RecvSessionUpdated)
  /\ WF_vars(RecvOutputItemAdded) /\ WF_vars(RecvResponseDone) /\ WF_vars(TwilioMarkAck)

\* =================================================================== SpecVal
\* The session after connect() and a greeting that was played to its end.
SessionEstablished ==
  /\ startHandler = "done"
  /\ wsState = "open"
  /\ wsAssigned = TRUE
  /\ openHandler = "done"
  /\ promptLoaded = TRUE
  /\ conversationPhase = "normal"
  /\ greetingAudioEndMs = 0
  /\ hasRequestedInitialResponse = TRUE
  /\ sessionUpdateTimeout = FALSE
  /\ currentAssistantItemId = 1
  /\ sentMsTotal = 300
  /\ playedMsTotal = 300
  /\ lastMarkSentMs = 300
  /\ markSeq = 1
  /\ markMap = <<>>
  /\ clearing = FALSE
  /\ bargeInDebounceTimer = "undefined"
  /\ isBargeInPending = FALSE
  /\ lastBargeInLog = "none"
  /\ toModel = <<SessionUpdateMsg("greeting"), GreetingResponseCreateMsg,
                 SessionUpdateMsg("normal")>>
  /\ twilioMarks = <<>>
  /\ clearsSent = 0
  /\ srvResp = "idle"
  /\ srvPendingAcks = 0
  /\ greetingDoneSeen = TRUE
  /\ timerStopped = FALSE
  /\ firstAudioDelta = TRUE
  /\ debounceItem = 0
  /\ staleMarkAcked = FALSE
  /\ realtimeErrors = {}
  /\ deltaBytesTotal = 2400
  /\ lastAudioDelta = DeltaAudio(1, 300, 2400)
  /\ lastMediaToTwilio = DeltaAudio(1, 300, 2400)

\* --------------------------------------------- arguments the model may send
NameSato == Str(<<"S", "a", "t", "o">>)
Blank == Str(<<" ">>)
ThreePeople == Str(<<"o", "t", "o", "n", "a", "3", "m", "e", "i">>)
Many == Str(<<"m", "a", "n", "y">>)
DateIso == Str(<<"2", "0", "2", "5", "-", "1", "2", "-", "2", "0">>)
DateSlash == Str(<<"1", "2", "/", "2", "0">>)
TimeIso == Str(<<"1", "9", ":", "0", "0">>)
TimePm == Str(<<"7", "p", "m">>)
StringTrue == Str(<<"t", "r", "u", "e">>)

AnswerValues ==
  [customer_name |-> {Undefined, NameSato, Blank},
   party_size |-> {Undefined, Num(3), Num(0), ThreePeople, Many},
   requested_date |-> {Undefined, Null, DateIso, DateSlash},
   requested_time |-> {Undefined, TimeIso, TimePm},
   second_date |-> {Undefined, DateIso}]

\* Keys the model may put beside `answers`.
TopLevelValues ==
  [customer_name |-> {Undefined},
   party_size |-> {Undefined, Many},
   requested_date |-> {Undefined},
   requested_time |-> {Undefined},
   second_date |-> {Undefined, DateSlash}]

ConfirmedValues == {Undefined, Bool(FALSE), Null, Num(1), StringTrue, Bool(TRUE)}

AnswerMaps == {m \in [FieldKeys -> UNION {AnswerValues[k] : k \in FieldKeys}] :
                 \A k \in FieldKeys : m[k] \in AnswerValues[k]}
TopLevelMaps == {m \in [FieldKeys -> UNION {TopLevelValues[k] : k \in FieldKeys}] :
                   \A k \in FieldKeys : m[k] \in TopLevelValues[k]}

AnswersObject(m) == [t |-> "object", m |-> m]
AnswersOther(t) == [t |-> t, m |-> NoAnswers]

ObjectArgs(answers, confirmed, top) ==
  [json |-> "object", answers |-> answers, confirmed |-> confirmed, top |-> top]
\* argument strings that are not JSON, or are JSON for null or for a number
OtherArgs(json) ==
  [json |-> json, answers |-> AnswersOther("undefined"), confirmed |-> Undefined,
   top |-> NoAnswers]

ArgsDomain ==
  {ObjectArgs(AnswersObject(m), c, top) :
     m \in AnswerMaps, c \in ConfirmedValues, top \in TopLevelMaps}
  \cup {ObjectArgs(AnswersOther(t), c, NoAnswers) :
          t \in {"undefined", "null", "array", "string"}, c \in ConfirmedValues}
  \cup {OtherArgs(j) : j \in {"invalid", "null", "number"}}

Invocation(callId, args) ==
  [call_id |-> callId, args |-> args, pc |-> "pending", result |-> NoResult,
   row |-> NoRow, outcome |-> "none"]

\* Rows reservation_form_fields can return for the tenant (the query does not
\* filter on enabled): none, or one of the tenant configurations.
StoreRows == {<<>>, TenantFieldsOptional, TenantFieldsNoRequired, TenantFieldsAllDisabled}

\* applyPromptSettings: the rows replace the defaults when there is at least one.
ApplyFormFields(formFields) ==
  IF Len(formFields) > 0 THEN formFields ELSE DEFAULT_RESERVATION_FIELDS

TenantConfigs == {ApplyFormFields(formFields) : formFields \in StoreRows}

InitVal ==
  /\ SessionEstablished
  /\ DefaultConfig
  /\ SingleCall /\ NoLinkAttempts
  /\ transcript = 1
  /\ CallInit
  /\ userId \in BOOLEAN
  /\ callerNumber = TRUE
  /\ reservationFields \in TenantConfigs
  /\ \E a \in ArgsDomain : FinInit(<<Invocation(1, a)>>)

NextVal ==
  \/ \E i \in 1..Len(inv) : FinalizeBegin(i)
  \/ \E i \in 1..Len(inv) : DbInsert(i)
  \/ \E i \in 1..Len(inv) : FinalizeResume(i)

SpecVal == InitVal /\ [][NextVal]_vars

\* ================================================================== SpecDedup
\* Several finalize_reservation calls of one telephone call, handled by
\* handlers that interleave at the awaited insert.
ValidAnswers ==
  [customer_name |-> NameSato, party_size |-> Num(3), requested_date |-> DateIso,
   requested_time |-> TimeIso, second_date |-> Undefined]
CallArgs ==
  {ObjectArgs(AnswersObject(ValidAnswers), Bool(TRUE), NoAnswers),
   ObjectArgs(AnswersObject([ValidAnswers EXCEPT !.party_size = ThreePeople]),
              Bool(TRUE), NoAnswers),
   ObjectArgs(AnswersObject([ValidAnswers EXCEPT !.requested_time = Undefined]),
              Bool(TRUE), NoAnswers)}

InitDedup ==
  /\ SessionEstablished
  /\ DefaultConfig
  /\ SingleCall /\ NoLinkAttempts
  /\ transcript = 1
  /\ CallInit
  /\ userId \in BOOLEAN
  /\ callerNumber = TRUE
  /\ reservationFields = DEFAULT_RESERVATION_FIELDS
  /\ \E as \in [1..MaxInv -> CallArgs] :
       FinInit([i \in 1..MaxInv |-> Invocation(i, as[i])])

SpecDedup == InitDedup /\ [][NextVal]_vars

\* =================================================================== SpecCall
\* ------------------------------------------------- index.ts: the stop event
\* A stop message arrives: calls.get(streamSid), then await writeLog(...).
StopBegin(h) ==
  /\ twilioSocket = "open"
  /\ stopHandlers[h] = "none"
  /\ \A g \in 1..(h - 1) : stopHandlers[g] # "none"
  /\ stopHandlers' = [stopHandlers EXCEPT ![h] = IF calls THEN "writeLog" ELSE "done"]
  /\ UNCHANGED <<sessionVars, trackerVars, bargeVars, transcript, outVars, srvVars,
                 histVars, finVars>>
  /\ UNCHANGED <<twilioSocket, calls, closeCount, saves, summaries, callLogs, usageReports>>
  /\ UNCHANGED logVars
  /\ UNCHANGED startHandler
  /\ UNCHANGED <<audioVars, extVars>>

\* saveCallLogToSupabase() up to its first await, as started by close().
SaveStart ==
  IF ~userId \/ ~callerNumber THEN "done"
  ELSE IF transcript > 0 THEN "summary"
  ELSE "insert"

\* writeLog resolved: context.realtime.close(), calls.delete(streamSid).
\* close(): ws.close() if this.ws is set, saveCallLogToSupabase() not awaited.
StopResume(h) ==
  /\ stopHandlers[h] = "writeLog"
  /\ stopHandlers' = [stopHandlers EXCEPT ![h] = "done"]
  /\ calls' = FALSE
  /\ IF startHandler = "writeLog"
       THEN \* context.realtime is not set yet: only the stop record is written
            /\ LogWritten
            /\ UNCHANGED <<wsState, closeCount, saves, summaries>>
       ELSE /\ closeCount' = closeCount + 1
            /\ wsState' = IF wsAssigned /\ wsState = "open" THEN "closing" ELSE wsState
            /\ saves' = Append(saves, SaveStart)
            /\ summaries' = IF SaveStart = "summary" THEN summaries + 1 ELSE summaries
            \* The stop record is written through the cached stream (opened
            \* for it if none is cached). close() queues the timing_summary
            \* record, whose write waits for `await ensureDir`, and ends the
            \* stream; the queued write then runs in the same tick and
            \* getStream opens and caches a new stream for it.
            /\ activeStream' = TRUE
            /\ streamsOpened' = streamsOpened + (IF activeStream THEN 1 ELSE 2)
            /\ streamsEnded' = streamsEnded + 1
            /\ streamClosePending' = streamClosePending + 1
            /\ lateWrites' = TRUE
  /\ UNCHANGED <<wsAssigned, openHandler, promptLoaded, conversationPhase,
                 greetingAudioEndMs, hasRequestedInitialResponse, sessionUpdateTimeout>>
  /\ UNCHANGED <<trackerVars, bargeVars, transcript, outVars, srvVars, histVars, finVars>>
  /\ UNCHANGED <<twilioSocket, callLogs, usageReports, startHandler, alerts>>
  /\ UNCHANGED <<audioVars, extVars>>

\* An ended stream emits 'close': its listener deletes whatever stream is
\* cached for the file path.
StreamCloseEvent ==
  /\ streamClosePending > 0
  /\ streamClosePending' = streamClosePending - 1
  /\ activeStream' = FALSE
  /\ UNCHANGED <<streamsOpened, streamsEnded, lateWrites, alerts>>
  /\ UNCHANGED <<sessionVars, trackerVars, bargeVars, transcript, outVars, srvVars,
                 histVars, finVars, callVars, startHandler>>
  /\ UNCHANGED <<audioVars, extVars>>

\* The model socket's close event after ws.close(): connected = false, logEvent.
WsCloseEvent ==
  /\ wsState = "closing"
  /\ wsState' = "closed"
  /\ LogEvent("openai_ws_close")
  /\ UNCHANGED <<wsAssigned, openHandler, promptLoaded, conversationPhase,
                 greetingAudioEndMs, hasRequestedInitialResponse, sessionUpdateTimeout>>
  /\ UNCHANGED <<trackerVars, bargeVars, transcript, outVars, srvVars, histVars, finVars,
                 callVars, startHandler>>
  /\ UNCHANGED <<audioVars, extVars>>

\* The carrier socket closes: the handler only logs.
TwilioSocketClose ==
  /\ twilioSocket = "open"
  /\ twilioSocket' = "closed"
  /\ UNCHANGED <<sessionVars, trackerVars, bargeVars, transcript, outVars, srvVars,
                 histVars, finVars>>
  /\ UNCHANGED <<calls, stopHandlers, closeCount, saves, summaries, callLogs, usageReports>>
  /\ UNCHANGED logVars
  /\ UNCHANGED startHandler
  /\ UNCHANGED <<audioVars, extVars>>

\* ------------------------------------------------- saveCallLogToSupabase
\* The summary completion returns (or fails): the call_logs insert is issued.
SaveSummaryDone(k) ==
  /\ saves[k] = "summary"
  /\ saves' = [saves EXCEPT ![k] = "insert"]
  /\ UNCHANGED <<sessionVars, trackerVars, bargeVars, transcript, outVars, srvVars,
                 histVars, finVars>>
  /\ UNCHANGED <<twilioSocket, calls, stopHandlers, closeCount, summaries, callLogs,
                 usageReports>>
  /\ UNCHANGED logVars
  /\ UNCHANGED startHandler
  /\ UNCHANGED <<audioVars, extVars>>

\* The call_logs insert returns: on success reportUsageToStripe is called.
SaveInsertDone(k) ==
  /\ saves[k] = "insert"
  /\ \E fails \in BOOLEAN :
       IF fails
         THEN /\ saves' = [saves EXCEPT ![k] = "done"]
              /\ UNCHANGED <<callLogs, usageReports>>
         ELSE /\ saves' = [saves EXCEPT ![k] = "usage"]
              /\ callLogs' = callLogs + 1
              /\ usageReports' = usageReports + 1
  /\ UNCHANGED <<sessionVars, trackerVars, bargeVars, transcript, outVars, srvVars,
                 histVars, finVars>>
  /\ UNCHANGED <<twilioSocket, calls, stopHandlers, closeCount, summaries>>
  /\ UNCHANGED logVars
  /\ UNCHANGED startHandler
  /\ UNCHANGED <<audioVars, extVars>>

\* linkCallLogToReservation(callLog.id): update reservation_requests set
\* call_log_id where call_sid is this call's; the rows that exist when the
\* update is applied get the id, here the index of the save that wrote the
\* call log.
LinkCallLogToReservation(callLogId) ==
  [r \in 1..Len(reservationRows) |->
     IF reservationRows[r].call_sid = CallSid THEN callLogId
     ELSE IF r \in DOMAIN rowCallLogId THEN rowCallLogId[r] ELSE 0]

\* reportUsageToStripe returned, then linkCallLogToReservation returned.
SaveFinish(k) ==
  /\ saves[k] \in {"usage", "link"}
  /\ saves' = [saves EXCEPT ![k] = IF saves[k] = "usage" THEN "link" ELSE "done"]
  /\ UNCHANGED <<sessionVars, trackerVars, bargeVars, transcript, outVars, srvVars,
                 histVars, finVars>>
  /\ UNCHANGED <<twilioSocket, calls, stopHandlers, closeCount, summaries, callLogs,
                 usageReports>>
  /\ UNCHANGED startHandler
  /\ IF saves[k] = "link" /\ ~reservationCreated
       THEN LogEvent("reservation_not_created") ELSE UNCHANGED logVars
  /\ UNCHANGED <<audioVars, realtimeErrors, deltaBytesTotal, otherCall, debounceItem, linkVars, staleMarkAcked>>
  /\ rowCallLogId' = IF saves[k] = "link" THEN LinkCallLogToReservation(k)
                                          ELSE rowCallLogId

\* ------------------------------------------------------------ initial states
\* ------------------------------------------------ messages that do not parse
BadMessageKinds == {"malformed", "unknown_event"}

\* A carrier message that is not JSON makes JSON.parse throw inside the try: the
\* catch closes the carrier socket. A message with an unknown event matches no
\* branch.
TwilioBadMessage(kind) ==
  /\ twilioSocket = "open"
  /\ badMessages < MaxBadMessages
  /\ badMessages' = badMessages + 1
  /\ twilioSocket' = IF kind = "malformed" THEN "closed" ELSE twilioSocket
  /\ UNCHANGED <<sessionVars, trackerVars, bargeVars, transcript, outVars, srvVars,
                 histVars, finVars, startHandler, logVars>>
  /\ UNCHANGED <<calls, stopHandlers, closeCount, saves, summaries, callLogs, usageReports>>
  /\ UNCHANGED <<enableBase64Passthrough, twilioMediaIn, mediaCount, firstAudioDelta,
                 lastAudioDelta, lastMediaToTwilio, extVars>>

\* handleRealtimeEvent: a parse error is caught and logged to the console; an
\* unknown type matches no branch.
ModelBadMessage(kind) ==
  /\ wsState = "open"
  /\ badMessages < MaxBadMessages
  /\ badMessages' = badMessages + 1
  /\ UNCHANGED <<sessionVars, trackerVars, bargeVars, transcript, outVars, srvVars,
                 histVars, finVars, callVars, startHandler, logVars>>
  /\ UNCHANGED <<enableBase64Passthrough, twilioMediaIn, mediaCount, firstAudioDelta,
                 lastAudioDelta, lastMediaToTwilio, extVars>>

InitCall ==
  /\ SessionEstablished
  /\ DefaultConfig
  /\ SingleCall /\ NoLinkAttempts
  /\ transcript = 1
  /\ CallInit
  /\ \E ids \in {<<TRUE, TRUE>>, <<TRUE, FALSE>>, <<FALSE, TRUE>>} :
       userId = ids[1] /\ callerNumber = ids[2]
  /\ reservationFields = DEFAULT_RESERVATION_FIELDS
  /\ \E a \in CallArgs : FinInit(<<Invocation(1, a)>>)

NextCall ==
  \/ \E i \in 1..Len(inv) : FinalizeBegin(i)
  \/ \E i \in 1..Len(inv) : DbInsert(i)
  \/ \E i \in 1..Len(inv) : FinalizeResume(i)
  \/ \E h \in 1..MaxStops : StopBegin(h)
  \/ \E h \in 1..MaxStops : StopResume(h)
  \/ TwilioSocketClose
  \/ WsCloseEvent
  \/ StreamCloseEvent
  \/ \E kind \in BadMessageKinds : TwilioBadMessage(kind)
  \/ \E kind \in BadMessageKinds : ModelBadMessage(kind)
  \/ \E k \in 1..Len(saves) : SaveSummaryDone(k)
  \/ \E k \in 1..Len(saves) : SaveInsertDone(k)
  \/ \E k \in 1..Len(saves) : SaveFinish(k)

SpecCall == InitCall /\ [][NextCall]_vars

\* ------------------------------------------------------ carrier media frames
\* The carrier's chunk-th media payload: 20 ms (160 bytes) of mu-law audio, encoded by a
\* standard encoder.
CarrierFrame(chunk) == Base64Text(AudioData(0, chunk, 160), TRUE)

SendAudioBase64MutantTwice(base64Mulaw) ==
  SendJson(toModel, <<AudioAppendMsg(base64Mulaw), AudioAppendMsg(base64Mulaw)>>)

\* sendAudioBase64: pass the text through as it is.
SendAudioBase64(base64Mulaw) ==
  IF ~wsAssigned \/ wsState \notin {"open", "closing"} THEN toModel
  ELSE SendJson(toModel, <<AudioAppendMsg(base64Mulaw)>>)

\* sendAudio: encode the decoded buffer again.
SendAudio(g711_ulaw) ==
  IF ~wsAssigned \/ wsState \notin {"open", "closing"} THEN toModel
  ELSE SendJson(toModel, <<AudioAppendMsg(Base64Encode(g711_ulaw))>>)

\* A media message from the carrier: dropped while the call has no session,
\* otherwise counted (logged on the first frame; the next sample is frame 100)
\* and forwarded within the handler.
OnTwilioMedia ==
  /\ twilioSocket = "open"
  /\ Len(twilioMediaIn) < MaxFrames
  /\ twilioMediaIn' = Append(twilioMediaIn, CarrierFrame(Len(twilioMediaIn) + 1))
  /\ IF ~calls \/ startHandler = "writeLog"
       THEN UNCHANGED <<mediaCount, toModel, logVars>>
       ELSE /\ mediaCount' = mediaCount + 1
            /\ IF mediaCount' = 1 THEN LogEvent("twilio_media") ELSE UNCHANGED logVars
            /\ toModel' = LET payloadBase64 == twilioMediaIn'[Len(twilioMediaIn')]
                          IN IF enableBase64Passthrough
                               THEN SendAudioBase64(payloadBase64)
                               ELSE SendAudio(Base64Decode(payloadBase64))
  /\ UNCHANGED <<sessionVars, trackerVars, bargeVars, transcript, twilioMarks, clearsSent,
                 srvVars, histVars, finVars, callVars, startHandler>>
  /\ UNCHANGED <<enableBase64Passthrough, firstAudioDelta, lastAudioDelta, lastMediaToTwilio,
                 badMessages, extVars>>

InitAudio ==
  SessionInit /\ CallInit /\ FinIdle /\ SingleCall /\ NoLinkAttempts /\ enableBase64Passthrough \in BOOLEAN

\* Sizes of decoded audio deltas that are not all whole milliseconds of
\* 8 kHz mu-law audio (8 bytes per millisecond).
RoundDeltaBytes == {2396, 2400, 2404}

\* An established call in the normal phase.
InitRound ==
  /\ SessionEstablished
  /\ DefaultConfig
  /\ SingleCall /\ NoLinkAttempts
  /\ transcript = 1
  /\ CallInit
  /\ FinIdle

NextRound ==
  \/ VadResponse
  \/ RecvOutputItemAdded
  \/ \E bytes \in RoundDeltaBytes : RecvAudioDelta(bytes)
  \/ RecvResponseDone
  \/ TwilioMarkAck

\* Assistant utterances whose audio arrives in deltas of arbitrary size.
SpecRound == InitRound /\ [][NextRound]_vars

NextAudio ==
  \/ WsOpen
  \/ PromptLoaded
  \/ OpenResume
  \/ SessionUpdateTimeoutFire
  \/ RecvSessionUpdated
  \/ RecvOutputItemAdded
  \/ \E bytes \in PlayDeltaBytes : RecvAudioDelta(bytes)
  \/ RecvResponseDone
  \/ TwilioMarkAck
  \/ OnTwilioMedia
  \/ TwilioSocketClose

SpecAudio == InitAudio /\ [][NextAudio]_vars

\* --------------------------------------------------- call set-up and teardown
\* The start handler resumes after writeLog(start): it constructs the session,
\* stores it in the context and calls connect(), which creates the WebSocket and
\* starts loading the prompt. The registry is not consulted again.
StartResume ==
  /\ startHandler = "writeLog"
  /\ startHandler' = "connect"
  /\ wsState' = "connecting"
  /\ LogWritten
  /\ UNCHANGED <<wsAssigned, openHandler, promptLoaded, conversationPhase,
                 greetingAudioEndMs, hasRequestedInitialResponse, sessionUpdateTimeout>>
  /\ UNCHANGED <<trackerVars, bargeVars, transcript, outVars, srvVars, histVars, finVars,
                 callVars, alerts>>
  /\ UNCHANGED <<audioVars, extVars>>

\* The connection attempt fails: the error handler logs and rejects connect(),
\* the close handler logs; the start handler's catch closes the carrier socket.
WsConnectError ==
  /\ wsState = "connecting"
  /\ wsState' = "closed"
  /\ startHandler' = "failed"
  /\ twilioSocket' = "closed"
  /\ LogEvent("openai_ws_close")
  /\ UNCHANGED <<wsAssigned, openHandler, promptLoaded, conversationPhase,
                 greetingAudioEndMs, hasRequestedInitialResponse, sessionUpdateTimeout>>
  /\ UNCHANGED <<trackerVars, bargeVars, transcript, outVars, srvVars, histVars, finVars>>
  /\ UNCHANGED <<calls, stopHandlers, closeCount, saves, summaries, callLogs, usageReports>>
  /\ UNCHANGED <<audioVars, extVars>>

\* The model service closes an open socket (or it errors): the close handler
\* sets connected = false and logs; reject() after resolve() has no effect.
ModelSocketDrop ==
  /\ wsState = "open"
  /\ wsState' = "closed"
  /\ LogEvent("openai_ws_close")
  /\ UNCHANGED <<wsAssigned, openHandler, promptLoaded, conversationPhase,
                 greetingAudioEndMs, hasRequestedInitialResponse, sessionUpdateTimeout>>
  /\ UNCHANGED <<trackerVars, bargeVars, transcript, outVars, srvVars, histVars, finVars,
                 callVars, startHandler>>
  /\ UNCHANGED <<audioVars, extVars>>

\* The carrier's start message has been parsed and the call registered; the
\* handler awaits writeLog(start). No stream is open for the log file yet.
InitLife ==
  /\ startHandler = "writeLog"
  /\ wsState = "none"
  /\ SessionConstructed
  /\ CallRegistered
  /\ activeStream = FALSE
  /\ streamsOpened = 0
  /\ FinIdle
  /\ DefaultConfig
  /\ SingleCall /\ NoLinkAttempts

\* Error codes the model channel reports with a message of their own.
BudgetErrorCodes == {"insufficient_quota", "billing_hard_limit_reached", "rate_limit_exceeded"}

ErrorCodes == BudgetErrorCodes \cup {"response_cancel_not_active", "server_error"}

\* handleRealtimeEvent, case 'error': the code only selects the console
\* message; every branch then records a realtime_error event.
RecvError(code) ==
  /\ wsState = "open"
  /\ Cardinality(realtimeErrors) < MaxErrors
  /\ realtimeErrors' = realtimeErrors \cup {code}
  /\ LogEvent("realtime_error")
  /\ UNCHANGED <<sessionVars, trackerVars, bargeVars, transcript, outVars, srvVars,
                 histVars, finVars, callVars, startHandler, audioVars>>
  /\ UNCHANGED <<deltaBytesTotal, otherCall, rowCallLogId, debounceItem, linkVars, staleMarkAcked>>

NextLife ==
  \/ \E code \in ErrorCodes : RecvError(code)
  \/ StartResume
  \/ WsOpen
  \/ WsConnectError
  \/ PromptLoaded
  \/ OpenResume
  \/ SessionUpdateTimeoutFire
  \/ RecvSessionUpdated
  \/ ModelSocketDrop
  \/ WsCloseEvent
  \/ StreamCloseEvent
  \/ TwilioSocketClose
  \/ \E h \in 1..MaxStops : StopBegin(h)
  \/ \E h \in 1..MaxStops : StopResume(h)
  \/ \E k \in 1..Len(saves) : SaveInsertDone(k)
  \/ \E k \in 1..Len(saves) : SaveFinish(k)

SpecLife == InitLife /\ [][NextLife]_vars

\* createLogFilePath(): call_<timestamp to the second>_<six base-36 digits of
\* Math.random()>.ndjson. Two calls that start within the same second draw
\* their suffixes independently from the same finite set.
LogFilePaths == {"call_t_r1.ndjson", "call_t_r2.ndjson"}

\* The path this call drew at its start event.
OwnLogFile == "call_t_r1.ndjson"

\* The start event of a second call with another streamSid, on another carrier
\* socket: it draws its log path, registers its own context and writes its
\* start record through the stream cached for that path.
OtherStart(path) ==
  /\ otherCall.state = "none"
  /\ otherCall' = [state |-> "active", logFile |-> path]
  /\ IF path = OwnLogFile
       THEN LogWritten /\ UNCHANGED alerts
       ELSE UNCHANGED logVars
  /\ UNCHANGED <<sessionVars, trackerVars, bargeVars, transcript, outVars, srvVars,
                 histVars, finVars, callVars, startHandler, audioVars>>
  /\ UNCHANGED <<realtimeErrors, deltaBytesTotal, rowCallLogId, debounceItem, linkVars, staleMarkAcked>>

\* The stop event of the second call: its stop record is written, its
\* session's close() queues timing_summary and calls closeLogStream(logFile),
\* which ends and uncaches whatever stream activeStreams holds for that path;
\* the queued write then opens a new one. Its registry entry is deleted by
\* its own streamSid.
OtherStop ==
  /\ otherCall.state = "active"
  /\ otherCall' = [otherCall EXCEPT !.state = "ended"]
  /\ IF otherCall.logFile = OwnLogFile
       THEN /\ activeStream' = TRUE
            /\ streamsOpened' = streamsOpened + (IF activeStream THEN 1 ELSE 2)
            /\ streamsEnded' = streamsEnded + 1
            /\ streamClosePending' = streamClosePending + 1
            /\ lateWrites' = (lateWrites \/ closeCount > 0)
            /\ UNCHANGED alerts
       ELSE UNCHANGED logVars
  /\ UNCHANGED <<sessionVars, trackerVars, bargeVars, transcript, outVars, srvVars,
                 histVars, finVars, callVars, startHandler, audioVars>>
  /\ UNCHANGED <<realtimeErrors, deltaBytesTotal, rowCallLogId, debounceItem, linkVars, staleMarkAcked>>

NextTwo ==
  \/ NextLife
  \/ \E path \in LogFilePaths : OtherStart(path)
  \/ OtherStop

\* Two calls in one process: this call's life cycle together with the start
\* and stop of a second call.
SpecTwo == InitLife /\ [][NextTwo]_vars

\* ---------------------------------------------------------------------------
\* LINE account linking: handleLinkToken of lineWebhook.ts.  The events of one
\* webhook request are processed concurrently (Promise.all), and so are the
\* requests themselves; each call runs from one await to the next.
\* ---------------------------------------------------------------------------

LineUsers == {"U1", "U2"}

\* Step 1: the select of the token row with the presented code, used_at null
\* and expires_at in the future.  No row: the attempt is rejected as invalid.
LinkSelectToken(a, lineUserId) ==
  /\ linkAttempts[a].pc = "idle"
  /\ linkAttempts' = [linkAttempts EXCEPT ![a] =
       IF linkTokenUsed
         THEN [pc |-> "done", lineUserId |-> lineUserId, linked |-> FALSE, reply |-> "invalid"]
         ELSE [pc |-> "upsert", lineUserId |-> lineUserId, linked |-> FALSE, reply |-> "none"]]
  /\ UNCHANGED <<linkTokenUsed, lineTargetId>>
  /\ UNCHANGED <<sessionVars, trackerVars, bargeVars, transcript, outVars, srvVars, histVars,
                 finVars, callVars, startHandler, logVars, audioVars, realtimeErrors,
                 deltaBytesTotal, otherCall, rowCallLogId, debounceItem, staleMarkAcked>>

\* Step 2: the upsert of the tenant's notification settings, keyed by user_id.
\* An error of the upsert ends the attempt with the error reply.
LinkUpsertSettings(a, updateError) ==
  /\ linkAttempts[a].pc = "upsert"
  /\ IF updateError
       THEN /\ linkAttempts' = [linkAttempts EXCEPT ![a].pc = "done", ![a].reply = "error"]
            /\ UNCHANGED lineTargetId
       ELSE /\ lineTargetId' = linkAttempts[a].lineUserId
            /\ linkAttempts' = [linkAttempts EXCEPT ![a].pc = "mark", ![a].linked = TRUE]
  /\ UNCHANGED linkTokenUsed
  /\ UNCHANGED <<sessionVars, trackerVars, bargeVars, transcript, outVars, srvVars, histVars,
                 finVars, callVars, startHandler, logVars, audioVars, realtimeErrors,
                 deltaBytesTotal, otherCall, rowCallLogId, debounceItem, staleMarkAcked>>

\* Steps 3 and 4: the update of used_at where id = token.id, then the success reply.
LinkMarkUsed(a) ==
  /\ linkAttempts[a].pc = "mark"
  /\ linkTokenUsed' = TRUE
  /\ linkAttempts' = [linkAttempts EXCEPT ![a].pc = "done", ![a].reply = "success"]
  /\ UNCHANGED lineTargetId
  /\ UNCHANGED <<sessionVars, trackerVars, bargeVars, transcript, outVars, srvVars, histVars,
                 finVars, callVars, startHandler, logVars, audioVars, realtimeErrors,
                 deltaBytesTotal, otherCall, rowCallLogId, debounceItem, staleMarkAcked>>

NextLink ==
  \/ \E a \in 1..MaxLinkAttempts, u \in LineUsers : LinkSelectToken(a, u)
  \/ \E a \in 1..MaxLinkAttempts, e \in BOOLEAN : LinkUpsertSettings(a, e)
  \/ \E a \in 1..MaxLinkAttempts : LinkMarkUsed(a)

SpecLink == InitPlay /\ [][NextLink]_vars

\* Every step the program or the network owes is eventually taken: pending
\* handlers resume, the connection attempt succeeds, timers expire, close
\* events are delivered. Nothing obliges the carrier to send stop, either
\* socket to drop, or the connection attempt to fail.
LiveSpecLife ==
  /\ SpecLife
  /\ WF_vars(StartResume) /\ WF_vars(WsOpen) /\ WF_vars(PromptLoaded)
  /\ WF_vars(OpenResume) /\ WF_vars(SessionUpdateTimeoutFire)
  /\ WF_vars(RecvSessionUpdated) /\ WF_vars(WsCloseEvent) /\ WF_vars(StreamCloseEvent)
  /\ \A h \in 1..MaxStops : WF_vars(StopResume(h))
  /\ WF_vars(\E k \in 1..Len(saves) : SaveInsertDone(k))
  /\ WF_vars(\E k \in 1..Len(saves) : SaveFinish(k))

\* ------------------------------------------------------------------- claims
TruncateSentInStep ==
  /\ Len(toModel') = Len(toModel) + 1
  /\ toModel'[Len(toModel')].type = "conversation.item.truncate"

GreetingMarksAcked == \A k \in 1..Len(twilioMarks) : twilioMarks[k].item # 1

\* C3: once the greeting's response.done has been handled and the carrier has
\* echoed every mark emitted for the greeting utterance (at least one was), the
\* phase eventually becomes normal (session.update(normal) is sent).
C3_GreetingEventuallyNormal ==
  (greetingDoneSeen /\ lastMarkSentMs > 0 /\ GreetingMarksAcked)
    ~> (conversationPhase = "normal")

\* C4: a truncate written to the model socket carries audio_end_ms = playedMsTotal
\* and item_id = currentAssistantItemId as they stand when the debounce timer
\* expires and the barge-in is confirmed.
C4_TruncateCarriesPlayedMs ==
  [][TruncateSentInStep =>
       /\ bargeInDebounceTimer = "armed" /\ isBargeInPending
       /\ toModel'[Len(toModel')].audio_end_ms = playedMsTotal
       /\ toModel'[Len(toModel')].item_id = currentAssistantItemId]_vars

C4_Witness ==
  \E k \in 1..Len(toModel) :
    /\ toModel[k].type = "conversation.item.truncate"
    /\ toModel[k].audio_end_ms > 0
    /\ toModel[k].audio_end_ms < sentMsTotal

RowsBy(i) == {r \in 1..Len(reservationRows) : reservationRows[r].by = i}

\* Arguments that pass every check of handleFinalizeReservation before the insert.
ReachesValidation(a) ==
  /\ a.json = "object"
  /\ RequiredFields(reservationFields) # <<>>
  /\ AnswersIsObject(a.answers)
  /\ ConfirmedIsTrue(a.confirmed)

\* C2: no reservation row is inserted by an invocation whose parsed `confirmed`
\* is anything but the boolean true (absent, false, null, 1, "true"): such an
\* invocation never reaches the insert and the store holds no row of it.
C2_RowsOnlyWhenConfirmedTrue ==
  \A i \in 1..Len(inv) :
    inv[i].args.confirmed # Bool(TRUE) =>
      /\ RowsBy(i) = {}
      /\ inv[i].pc \notin {"insert", "resume"}

C2_Witness ==
  \E i \in 1..Len(inv) :
    /\ inv[i].pc = "done"
    /\ inv[i].args.confirmed = StringTrue
    /\ AnswersIsObject(inv[i].args.answers)
    /\ MissingFields(EnabledFields(reservationFields), inv[i].args.answers.m) = <<>>
    /\ userId
    /\ inv[i].result = NotConfirmed
    /\ reservationRows = <<>>

OutputsOf(i) ==
  {k \in 1..Len(toModel) : /\ toModel[k].type = "conversation.item.create"
                           /\ toModel[k].call_id = inv[i].call_id}

\* C7: every finalize_reservation invocation that has ended, on whichever branch,
\* has sent exactly one function_call_output with its call_id and its result,
\* immediately followed by a response.create.
C7_OneOutputThenResponseCreate ==
  \A i \in 1..Len(inv) :
    inv[i].pc \in {"done", "thrown"} =>
      /\ Cardinality(OutputsOf(i)) = 1
      /\ \A k \in OutputsOf(i) :
           /\ toModel[k].output = inv[i].result
           /\ k < Len(toModel)
           /\ toModel[k + 1] = ResponseCreateMsg

TypeOk(f, val) ==
  CASE f.field_type = "number" -> val.t = "number"
    [] f.field_type = "date" -> MatchesDate(StringOf(val))
    [] f.field_type = "time" -> MatchesTime(StringOf(val))
    [] OTHER -> TRUE

\* After coercion: a required field that is empty, or a supplied value that
\* fails its type check.
Offending(f, rawVal) ==
  \/ f.required /\ IsEmptyVal(Coerce(f, rawVal))
  \/ ~IsEmptyVal(Coerce(f, rawVal)) /\ ~TypeOk(f, Coerce(f, rawVal))

OffendingFields(a) ==
  SelectSeq(EnabledFields(reservationFields),
            LAMBDA f : Offending(f, a.answers.m[f.field_key]))

\* C8: an invocation that reaches coercion and validation with an offending
\* enabled field inserts no row and ends with {ok:false, error_type:
\* "missing_fields"} whose non-empty missing_fields list names the label of each
\* offending field, in field order.
C8_MissingFieldsResult ==
  \A i \in 1..Len(inv) :
    (/\ inv[i].pc # "pending"
     /\ ReachesValidation(inv[i].args)
     /\ OffendingFields(inv[i].args) # <<>>) =>
      /\ inv[i].pc = "done"
      /\ RowsBy(i) = {}
      /\ inv[i].result.ok = FALSE
      /\ inv[i].result.error_type = "missing_fields"
      /\ inv[i].result.missing_fields # <<>>
      /\ Len(inv[i].result.missing_fields) = Len(OffendingFields(inv[i].args))
      /\ \A k \in 1..Len(inv[i].result.missing_fields) :
           inv[i].result.missing_fields[k].label = OffendingFields(inv[i].args)[k].label

C8_Witness ==
  \E i \in 1..Len(inv) :
    /\ inv[i].pc = "done"
    /\ inv[i].result.error_type = "missing_fields"
    /\ Len(inv[i].result.missing_fields) >= 2
    /\ \E k \in 1..Len(inv[i].result.missing_fields) :
         inv[i].result.missing_fields[k].hint = ""
    /\ \E k \in 1..Len(inv[i].result.missing_fields) :
         inv[i].result.missing_fields[k].hint # ""
    /\ reservationRows = <<>>

Conforms(f, v) ==
  \/ v.t \in {"undefined", "null"}
  \/ CASE f.field_type = "number" -> v.t = "number"
       [] f.field_type = "date" -> v.t = "string" /\ MatchesDate(v.s)
       [] f.field_type = "time" -> v.t = "string" /\ MatchesTime(v.s)
       [] OTHER -> TRUE

\* C9: in every persisted reservation row the value of each enabled date field
\* matches YYYY-MM-DD or is null, of each enabled time field matches HH:mm or is
\* null, and of each enabled number field is an integer or null.
C9_PersistedValuesConform ==
  \A r \in 1..Len(reservationRows) :
    \A j \in 1..Len(EnabledFields(reservationFields)) :
      Conforms(EnabledFields(reservationFields)[j],
               reservationRows[r].answers[EnabledFields(reservationFields)[j].field_key])

\* --------------------------------------------- claims: concurrency, shutdown
PassesValidation(a) ==
  /\ ReachesValidation(a)
  /\ MissingFields(EnabledFields(reservationFields), a.answers.m) = <<>>

Passing == {i \in 1..Len(inv) : PassesValidation(inv[i].args)}

OneRowOneFreshOthersDeduped ==
  /\ Len(reservationRows) = 1
  /\ reservationRows[1].call_sid = CallSid
  /\ Cardinality({i \in Passing : /\ inv[i].result.ok
                                  /\ inv[i].result.deduped = "false"
                                  /\ inv[i].result.reservation_id # 0}) = 1
  /\ Cardinality({i \in Passing : inv[i].result = Deduped}) = Cardinality(Passing) - 1
  /\ Len(notifications) = 1

\* C1 as stated: whenever two (or more) invocations of the same call that pass
\* validation have ended, the store holds exactly one row for the call, exactly
\* one of them returned {ok:true, reservation_id, deduped:false}, every other
\* one {ok:true, deduped:true}, and one notification was handed off.
C1_AsStated ==
  (/\ Cardinality(Passing) >= 2
   /\ \A i \in Passing : inv[i].pc = "done") => OneRowOneFreshOthersDeduped

\* C1, amended: the same, for a call whose tenant is identified and whose
\* inserts did not fail for a reason other than the uniqueness conflict.
C1_ExactlyOneRow ==
  (/\ Cardinality(Passing) >= 2
   /\ \A i \in Passing : inv[i].pc = "done" /\ inv[i].outcome \in {"created", "23505"})
    => OneRowOneFreshOthersDeduped

C1_Witness ==
  /\ \E i, j \in Passing :
       /\ inv[i].pc = "done" /\ inv[i].result = Created(1)
       /\ inv[j].pc = "done" /\ inv[j].result = Deduped
  /\ Len(reservationRows) = 1
  /\ Len(notifications) = 1

\* C10: however often shutdown is triggered for a call, the call log is
\* persisted at most once, usage is reported at most once and the summary is
\* requested at most once.
C10_CloseExactlyOnce == callLogs <= 1 /\ usageReports <= 1 /\ summaries <= 1

\* C11: once a carrier stop has been processed, the model socket is eventually
\* closed, whatever the session was doing when the stop arrived (start handler
\* still writing its log record, socket connecting, prompt loading).
C11_StopClosesModelSocket ==
  (\E h \in 1..MaxStops : stopHandlers[h] = "done") ~> (wsState = "closed")

\* C12: when the carrier socket closes without a stop message having been
\* received, the call is eventually destroyed: shutdown has run, the model
\* socket is closed and the registry entry is removed.
C12_CarrierCloseDestroysCall ==
  (twilioSocket = "closed" /\ startHandler # "failed"
     /\ \A h \in 1..MaxStops : stopHandlers[h] = "none")
    ~> (~calls /\ closeCount > 0 /\ wsState = "closed")

\* C13: when the model socket closes in the middle of a call, shutdown
\* eventually runs and the registry entry is released, whether or not the
\* carrier ever sends stop.
C13_ModelCloseTerminatesCall ==
  (wsState = "closed" /\ startHandler = "done" /\ closeCount = 0)
    ~> (closeCount > 0 /\ ~calls)

\* C14: once the session_update_timeout alert has been emitted, the model
\* socket is eventually closed (or closing).
C14_AckTimeoutClosesModelSocket ==
  ("session_update_timeout" \in alerts) ~> (wsState \in {"closing", "closed"})

\* C15: no record is written to the call's log file after close() has closed
\* its stream.
C15_NoWriteAfterLogClosed == ~lateWrites

\* The call is over: shutdown has run and nothing it started is still pending.
CallEnded ==
  /\ closeCount > 0
  /\ \A h \in 1..MaxStops : stopHandlers[h] # "writeLog"
  /\ \A k \in 1..Len(saves) : saves[k] = "done"
  /\ \A i \in 1..Len(inv) : inv[i].pc \notin {"insert", "resume"}
  /\ wsState # "closing"
  /\ streamClosePending = 0

\* C16: at the end of the call every write stream that was opened for the log
\* file has been ended, and none is left in the stream cache.
C16_StreamsClosedByEndOfCall ==
  CallEnded => (streamsEnded = streamsOpened /\ ~activeStream)

\* C18: when the call is over and no reservation row exists for it, the
\* reservation_not_created alert has been emitted.
C18_AlertWhenNoReservation ==
  (CallEnded /\ reservationRows = <<>>) => "reservation_not_created" \in alerts

\* The audio payloads among the messages sent to the model, in sending order.
IsAudioAppend(m) == m.type = "input_audio_buffer.append"
AudioSent(queue) ==
  LET appends == SelectSeq(queue, IsAudioAppend)
  IN [k \in 1..Len(appends) |-> appends[k].audio]

\* a can be obtained from b by deleting elements.
RECURSIVE IsSubseq(_, _)
IsSubseq(a, b) ==
  IF a = <<>> THEN TRUE
  ELSE IF b = <<>> THEN FALSE
  ELSE IF Head(a) = Head(b) THEN IsSubseq(Tail(a), Tail(b))
  ELSE IsSubseq(a, Tail(b))

\* Audio p lies after audio q in the model's output.
Later(p, q) ==
  \/ p.data.item_id > q.data.item_id
  \/ p.data.item_id = q.data.item_id /\ p.data.pos > q.data.pos

C19_DefaultsWhenNoneEnabled ==
  \A i \in 1..Len(inv) :
    (inv[i].pc = "done" /\ EnabledFields(reservationFields) = <<>>)
      => inv[i].result # SystemError("NO_REQUIRED_FIELDS")

\* C20: a step that receives a malformed or unknown message, on either
\* socket, closes neither socket and changes nothing else of the call's state.
C20_BadMessageDiscarded ==
  [][badMessages' # badMessages =>
       /\ twilioSocket' = twilioSocket
       /\ wsState' = wsState
       /\ UNCHANGED <<sessionVars, trackerVars, bargeVars, transcript, outVars, finVars,
                      calls, stopHandlers, closeCount, saves, startHandler>>]_vars

\* C21: once a budget error (insufficient_quota, billing_hard_limit_reached,
\* rate_limit_exceeded) has arrived on the model channel, the call is
\* eventually shut down: close() is invoked on the session.
C21_BudgetErrorEndsCall ==
  (realtimeErrors \cap BudgetErrorCodes # {}) ~> (closeCount > 0)

\* C22: calls are isolated: a step of the other call (its start or its
\* shutdown) leaves this call's phase, playback tracker, transcript,
\* reservation flag, registry entry and log stream as they were.
C22_CallsIsolated ==
  [][otherCall' # otherCall =>
       UNCHANGED <<conversationPhase, trackerVars, transcript, reservationCreated, calls,
                   activeStream, streamsOpened, streamsEnded, streamClosePending>>]_vars

\* C23: the played position always lies between 0 and the sent position,
\* and it never decreases except in the step that resets the tracker for a
\* new assistant utterance.
C23_PlayedWithinSent ==
  [][/\ 0 <= playedMsTotal' /\ playedMsTotal' <= sentMsTotal'
     /\ (currentAssistantItemId' = currentAssistantItemId => playedMsTotal' >= playedMsTotal)]_vars

\* A second utterance has been partly played after the tracker was reset.
C23_Witness ==
  /\ currentAssistantItemId = 2
  /\ playedMsTotal > 0
  /\ playedMsTotal < sentMsTotal

\* The step in which the carrier's echo of the oldest outstanding mark is
\* handled.
MarkAcked == twilioMarks # <<>> /\ twilioMarks' = Tail(twilioMarks)

\* C24 (as amended): for a mark of the current utterance, still in the mark
\* table, emitted at sent position S: when its acknowledgement is handled
\* while clearing is false the played position is at least S immediately
\* afterwards, and when it is handled while clearing is true the played
\* position is unchanged.
C24_AckGating ==
  [][MarkAcked /\ Head(twilioMarks) \in DOMAIN markMap =>
       IF clearing THEN playedMsTotal' = playedMsTotal
                   ELSE playedMsTotal' >= Head(twilioMarks).ms]_vars

\* C24 as stated: the same for any mark that was emitted, whether or not a
\* new utterance has begun since.
C24_AsStated ==
  [][MarkAcked =>
       IF clearing THEN playedMsTotal' = playedMsTotal
                   ELSE playedMsTotal' >= Head(twilioMarks).ms]_vars

\* Every mark of an interrupted utterance has been acknowledged during the
\* clearing window, the last of them beyond the played position.
C24_Witness ==
  /\ clearing
  /\ markMap = <<>>
  /\ twilioMarks = <<>>
  /\ lastMarkSentMs > playedMsTotal
  /\ playedMsTotal > 0

\* C25: once a confirmed barge-in has set clearing, no further clear is sent
\* to the carrier and no further truncate is sent to the model until the
\* next assistant utterance begins.
C25_OneClearOneTruncate ==
  [][clearing =>
       /\ clearsSent' = clearsSent
       /\ CountType(toModel', "conversation.item.truncate")
            = CountType(toModel, "conversation.item.truncate")]_vars

\* The session.update(normal) messages sent to the model so far.
NormalUpdates(msgs) ==
  Cardinality({k \in 1..Len(msgs) :
                 msgs[k].type = "session.update" /\ msgs[k].phase = "normal"})

\* C26: session.update(normal) is sent at most once per call, and the step
\* that sends it finds the greeting's response.done observed, with a sent
\* position recorded at that moment, and leaves the played position at or
\* above 90% of that recorded value.
C26_NormalUpdateOnceAfterGreeting ==
  [][NormalUpdates(toModel') # NormalUpdates(toModel) =>
       /\ NormalUpdates(toModel) = 0
       /\ NormalUpdates(toModel') = 1
       /\ greetingDoneSeen
       /\ greetingAudioEndMs > 0
       /\ playedMsTotal' * 10 >= greetingAudioEndMs * 9]_vars

\* The switch to the normal phase has been sent and a later utterance is
\* being played.
C26_Witness ==
  /\ NormalUpdates(toModel) = 1
  /\ conversationPhase = "normal"
  /\ currentAssistantItemId = 2
  /\ playedMsTotal > 0

\* C27: the sent position equals round(B * 1000 / 8000) for the B bytes
\* forwarded since the tracker was last reset, whatever the sizes of the
\* deltas that made up B.
C27_SentMsIsRoundedTotal == sentMsTotal = DeltaMs(deltaBytesTotal)

\* C28: after close() has run, no timer of the call produces an effect: no
\* clear to the carrier, no truncate to the model, no barge_in_confirmed and
\* no session_update_timeout event.
C28_NoTimerEffectAfterClose ==
  [][closeCount > 0 =>
       /\ clearsSent' = clearsSent
       /\ CountType(toModel', "conversation.item.truncate")
            = CountType(toModel, "conversation.item.truncate")
       /\ (lastBargeInLog' = "confirmed" => lastBargeInLog = "confirmed")
       /\ ("session_update_timeout" \in alerts' => "session_update_timeout" \in alerts)]_vars

\* C29: the invocations of finalize_reservation of one call are handled one
\* after the other: at most one of them is between its start and its return
\* (awaiting the store, or about to send its output) at any moment.
C29_FinalizeSequential ==
  Cardinality({i \in 1..Len(inv) : inv[i].pc \in {"insert", "resume"}}) <= 1

\* The first step, in the order parse, required-fields guard, answers
\* structure, consent, per-field validation, that fails for the arguments a;
\* "insert" when none does.
FirstFailingStep(a) ==
  IF a.json = "invalid" THEN "PARSE_ERROR"
  ELSE IF RequiredFields(reservationFields) = <<>> THEN "NO_REQUIRED_FIELDS"
  ELSE IF a.json # "object" \/ ~AnswersIsObject(a.answers) THEN "INVALID_ANSWERS_FORMAT"
  ELSE IF a.confirmed # Bool(TRUE) THEN "not_confirmed"
  ELSE IF MissingFields(EnabledFields(reservationFields), a.answers.m) # <<>>
    THEN "missing_fields"
  ELSE "insert"

\* C30: an invocation that has been taken up returns the result of its
\* first failing step: the system error of that name for parse, guard and
\* answers structure, not_confirmed for consent, missing_fields for
\* validation, and otherwise whatever the insert yields.
C30_ResultByFirstFailingStep ==
  \A i \in 1..Len(inv) :
    inv[i].pc # "pending" =>
      LET step == FirstFailingStep(inv[i].args)
      IN CASE step \in {"PARSE_ERROR", "NO_REQUIRED_FIELDS", "INVALID_ANSWERS_FORMAT"} ->
                inv[i].pc = "done" /\ inv[i].result = SystemError(step)
           [] step = "not_confirmed" ->
                inv[i].pc = "done" /\ inv[i].result = NotConfirmed
           [] step = "missing_fields" ->
                inv[i].pc = "done" /\ inv[i].result.error_type = "missing_fields"
           [] OTHER ->
                \/ inv[i].pc \in {"insert", "resume"}
                \/ /\ inv[i].pc = "done"
                   /\ inv[i].result.error_type \notin {"not_confirmed", "missing_fields"}
                   /\ inv[i].result.error_code \notin
                        {"PARSE_ERROR", "NO_REQUIRED_FIELDS", "INVALID_ANSWERS_FORMAT"}

\* The tool_call events written for invocation i.
ToolCallLogsOf(i) ==
  {k \in 1..Len(toolCallLogs) : toolCallLogs[k].call_id = inv[i].call_id}

\* C31: every finalize_reservation invocation that has ended, whatever the
\* branch, has exactly one tool_call event, which carries its raw arguments,
\* its result and its call id.
C31_OneToolCallLogPerInvocation ==
  \A i \in 1..Len(inv) :
    inv[i].pc \in {"done", "thrown"} =>
      /\ Cardinality(ToolCallLogsOf(i)) = 1
      /\ \A k \in ToolCallLogsOf(i) :
           /\ toolCallLogs[k].args = inv[i].args
           /\ toolCallLogs[k].result = inv[i].result

\* C32: once shutdown has completed, every reservation row of this call,
\* also one whose insert was in flight when shutdown began, carries the id
\* of a call log written for the call.
C32_RowsLinkedToCallLog ==
  CallEnded =>
    \A r \in 1..Len(reservationRows) :
      reservationRows[r].call_sid = CallSid =>
        /\ r \in DOMAIN rowCallLogId
        /\ rowCallLogId[r] \in {k \in 1..Len(saves) : saves[k] = "done"}

\* The greeting response.create messages sent to the model so far.
GreetingRequests(msgs) ==
  Cardinality({k \in 1..Len(msgs) : msgs[k] = GreetingResponseCreateMsg})

\* The step in which a session.updated event is handled.
SessionUpdatedHandled == srvPendingAcks' = srvPendingAcks - 1

\* C33: the greeting response.create is sent once per call: never before a
\* session.updated, by the handling of the first session.updated, and not
\* again by any later one.
C33_GreetingRequestedOnce ==
  [][/\ GreetingRequests(toModel') <= 1
     /\ GreetingRequests(toModel') # GreetingRequests(toModel) =>
          SessionUpdatedHandled /\ ~hasRequestedInitialResponse
     /\ SessionUpdatedHandled => GreetingRequests(toModel') = 1]_vars

\* The acknowledgement of session.update(normal) has been handled as well.
C33_Witness ==
  /\ NormalUpdates(toModel) = 1
  /\ srvPendingAcks = 0
  /\ GreetingRequests(toModel) = 1
  /\ currentAssistantItemId = 2

\* C34: the conversation phase is greeting or normal, and a step never takes
\* it from normal back to greeting.
C34_PhaseMonotonic ==
  [][/\ conversationPhase' \in {"greeting", "normal"}
     /\ conversationPhase = "normal" => conversationPhase' = "normal"]_vars

\* The phase is still normal while a later utterance is under way.
C34_Witness ==
  /\ conversationPhase = "normal"
  /\ currentAssistantItemId = 3
  /\ sentMsTotal > 0

\* C35: a confirmed barge-in acts on the assistant item that was current
\* when its debounce timer was started: a step that sends clear or truncate
\* finds that item still current.
C35_BargeInHitsItemOfTimerStart ==
  [][(clearsSent' # clearsSent \/ TruncateSentInStep) =>
       debounceItem = currentAssistantItemId]_vars

\* C36: every input_audio_buffer.append sent to the model comes after the
\* session.update of the greeting phase.
C36_NoAudioBeforeSessionUpdate ==
  \A k \in 1..Len(toModel) :
    IsAudioAppend(toModel[k]) =>
      \E j \in 1..(k - 1) : toModel[j] = SessionUpdateMsg("greeting")

\* C37: every notification handed off after a fresh insert carries the
\* customer name, party size, requested date and requested time of a
\* persisted reservation row.
C37_NotificationMatchesRow ==
  \A n \in 1..Len(notifications) :
    \E r \in 1..Len(reservationRows) :
      /\ notifications[n].customer_name = reservationRows[r].customer_name
      /\ notifications[n].party_size = reservationRows[r].party_size
      /\ notifications[n].requested_date = reservationRows[r].requested_date
      /\ notifications[n].requested_time = reservationRows[r].requested_time

\* C38: the link token is single-use: of the attempts presenting its code at
\* most one links a LINE account to the tenant's notification settings, and an
\* attempt that has ended without linking and without a database error was
\* rejected as invalid.
C38_LinkTokenSingleUse ==
  /\ Cardinality({a \in 1..MaxLinkAttempts : linkAttempts[a].linked}) <= 1
  /\ \A a \in 1..MaxLinkAttempts :
       (linkAttempts[a].pc = "done" /\ ~linkAttempts[a].linked /\ linkAttempts[a].reply # "error")
         => linkAttempts[a].reply = "invalid"

\* C39: the reservation flag is true only if a reservation row with this call's
\* callId is committed; it is true once a finalize_reservation handler has come
\* back from the store with the row freshly inserted or with the unique-key
\* conflict; and once true it never returns to false.
C39_FlagIffRowCommitted ==
  /\ [](/\ reservationCreated =>
             \E r \in 1..Len(reservationRows) : reservationRows[r].call_sid = CallSid
        /\ \A i \in 1..Len(inv) :
             (inv[i].pc = "done" /\ inv[i].outcome \in {"created", "23505"})
               => reservationCreated)
  /\ [][reservationCreated => reservationCreated']_vars

\* C40: the mark map only ever holds marks of the current utterance, the echo
\* of a mark removes it from the map, and the echo of a mark that was emitted
\* before the last tracker reset changes neither playedMs nor the phase.
C40_StaleAckNoEffect ==
  /\ [](\A n \in DOMAIN markMap : n.item = currentAssistantItemId)
  /\ [][MarkAcked => Head(twilioMarks) \notin DOMAIN markMap']_vars
  /\ [][MarkAcked /\ Head(twilioMarks).item # currentAssistantItemId
          => UNCHANGED <<playedMsTotal, conversationPhase>>]_vars

\* The echo of a mark of an earlier utterance has been handled while the
\* current utterance had audio sent and not yet played.
C40_Witness ==
  /\ staleMarkAcked
  /\ markMap # <<>>
  /\ playedMsTotal < sentMsTotal

====
